---------------------------- MODULE Spec2Model ----------------------------
(***************************************************************************)
(* Model of the AluVM bit cursor, bytecode codec and assembler entry       *)
(* points (src/src/instr/encoding.rs) and of the instruction set           *)
(* (src/src/instruction.rs).                                               *)
(*                                                                         *)
(* A Rust panic (a failed assert!, an out-of-range index, unreachable!,    *)
(* todo!) aborts the call; it is modelled as the result kind "Panic".      *)
(* A byte buffer is represented sparsely: a function from the positions    *)
(* holding a non-zero byte to that byte, every other position below `len`  *)
(* holding zero.                                                           *)
(***************************************************************************)
EXTENDS Integers, Sequences, FiniteSets, TLC

VARIABLES
    cur,      \* the cursor: [bytecode, len, byte_pos, bit_pos, eof]
    prev,     \* the cursor as it was before the last operation
    last,     \* the last operation: [op, n]
    res,      \* what the last operation returned: [kind, pos]
    val,      \* the value the last read returned
    pc,       \* position of the caller
    nops,     \* number of cursor operations issued so far
    instr,    \* the instruction handed to Bytecode::write
    decoded,  \* the instruction Instr::read returned
    ext,      \* the Extension type parameter: [kind, range]
    input,    \* the byte string handed to disassemble: [len, bytes]
    lead,     \* number of one-byte Fail instructions heading the program
    code,     \* the instructions of the program behind its lead
    out,      \* the instructions collected by disassemble
    blob,     \* the Blob compile returned: [len, bytes]
    libs,     \* the libraries of the running program: library id -> code
    regs,     \* the register file: [st0, cy0, cp0, cs0]
    site,     \* the current code position: [pos, lib]
    step,     \* the ExecStep the last instruction returned
    was       \* registers and position before the last instruction

vars == <<cur, prev, last, res, val, pc, nops, instr, decoded, ext, input,
          lead, code, out, blob, libs, regs, site, step, was>>

-----------------------------------------------------------------------------
(* Machine integers *)

U16Max == 65535
U8Max == 255

RECURSIVE Pow2(_)
Pow2(n) == IF n = 0 THEN 1 ELSE 2 * Pow2(n - 1)

\* a & b on u8
RECURSIVE BitAnd(_, _, _)
BitAnd(a, b, n) ==
    IF n = 0 THEN 0
    ELSE (a % 2) * (b % 2) + 2 * BitAnd(a \div 2, b \div 2, n - 1)

\* a | b on u8
RECURSIVE BitOr(_, _, _)
BitOr(a, b, n) ==
    IF n = 0 THEN 0
    ELSE (IF a % 2 = 1 \/ b % 2 = 1 THEN 1 ELSE 0)
         + 2 * BitOr(a \div 2, b \div 2, n - 1)

\* (a << s) as u8: bits shifted past bit 7 are dropped
Shl8(a, s) == (a * Pow2(s)) % 256

\* u16::to_le_bytes / u16::from_le_bytes
ToLeBytes(w) == <<w % 256, w \div 256>>
FromLeBytes(b) == b[1] + 256 * b[2]

-----------------------------------------------------------------------------
(* Byte buffers *)

ZeroBytes == [j \in {} |-> 0]

Get(b, i) == IF i \in DOMAIN b THEN b[i] ELSE 0

Put(b, i, v) ==
    [j \in (IF v = 0 THEN DOMAIN b \ {i} ELSE DOMAIN b \cup {i}) |->
        IF j = i THEN v ELSE b[j]]

\* bytecode[from..from+n] as a byte sequence
Slice(b, from, n) == [k \in 1..n |-> Get(b, from + k - 1)]

\* bytecode[from..from+Len(s)].copy_from_slice(s)
CopyFromSlice(b, from, s) ==
    LET target == from..(from + Len(s) - 1)
        nonzero == {j \in target : s[j - from + 1] # 0}
    IN  [j \in (DOMAIN b \ target) \cup nonzero |->
            IF j \in target THEN s[j - from + 1] ELSE b[j]]

\* a byte sequence as a buffer
AsBytes(s) == CopyFromSlice(ZeroBytes, 0, s)

-----------------------------------------------------------------------------
(* Results *)

OkRes == [kind |-> "Ok", pos |-> 0]
EofRes == [kind |-> "Eof", pos |-> 0]
OutOfBoundaries(p) == [kind |-> "OutOfBoundaries", pos |-> p]
PanicRes == [kind |-> "Panic", pos |-> 0]

Ok(c, v) == [c |-> c, res |-> OkRes, val |-> v]
Err(c, e) == [c |-> c, res |-> e, val |-> 0]
Panic(c) == [c |-> c, res |-> PanicRes, val |-> 0]

IsOk(r) == r.res.kind = "Ok"

\* result.map(|_| v)
MapVal(r, v) == IF IsOk(r) THEN [r EXCEPT !.val = v] ELSE r

\* the ? operator: an error returns at once, Ok hands on to the rest
Try(r, Rest(_)) == IF IsOk(r) THEN Rest(r) ELSE r

\* a call whose Result is dropped: only a panic keeps the rest from running
Dropped(r, Rest(_)) == IF r.res.kind = "Panic" THEN r ELSE Rest(r.c)

-----------------------------------------------------------------------------
(* Cursor *)

\* Cursor::with
CursorWith(bytes, len) ==
    [bytecode |-> bytes, len |-> len, byte_pos |-> 0, bit_pos |-> 0,
     eof |-> FALSE]

\* _inc_bytes_inner that sets eof on every step that leaves the range
inc_bytes_inner_EofAnywhere(c, byte_count) ==
    IF c.byte_pos + byte_count > U16Max
    THEN Ok([c EXCEPT !.eof = TRUE], 0)
    ELSE Ok([c EXCEPT !.byte_pos = c.byte_pos + byte_count], 0)

inc_bytes_inner_NoEof(c, byte_count) ==
    IF c.byte_pos + byte_count > U16Max
    THEN Err(c, OutOfBoundaries(c.byte_pos + byte_count))
    ELSE Ok([c EXCEPT !.byte_pos = c.byte_pos + byte_count], 0)

inc_bytes_inner(c, byte_count) ==
    IF byte_count = 1 /\ c.byte_pos = U16Max
    THEN Ok([c EXCEPT !.eof = TRUE], 0)
    ELSE IF c.byte_pos + byte_count > U16Max
         THEN Err(c, OutOfBoundaries(c.byte_pos + byte_count))
         ELSE Ok([c EXCEPT !.byte_pos = c.byte_pos + byte_count], 0)

\* inc_bits without its assertion: the position wraps into the next byte
inc_bits_NoAssert(c, bit_count) ==
    IF c.eof THEN Err(c, EofRes)
    ELSE LET pos == c.bit_pos + bit_count
         IN  inc_bytes_inner([c EXCEPT !.bit_pos = pos % 8], pos \div 8)

inc_bits(c, bit_count) ==
    IF ~(c.bit_pos + bit_count <= 8) THEN Panic(c)
    ELSE IF c.eof THEN Err(c, EofRes)
    ELSE LET pos == c.bit_pos + bit_count
         IN  inc_bytes_inner([c EXCEPT !.bit_pos = pos % 8], pos \div 8)

inc_bytes(c, byte_count) ==
    IF c.bit_pos # 0 THEN Panic(c)
    ELSE IF c.eof THEN Err(c, EofRes)
    ELSE inc_bytes_inner(c, byte_count)

\* the mask built by the loop of extract, before it is shifted
RECURSIVE Mask(_)
Mask(cnt) == IF cnt = 0 THEN 0 ELSE BitOr(Shl8(Mask(cnt - 1), 1), 1, 8)

extract(c, bit_count) ==
    IF c.eof THEN Err(c, EofRes)
    ELSE IF c.byte_pos >= c.len THEN Panic(c)
    ELSE IF ~(c.bit_pos + bit_count <= 8) THEN Panic(c)
    ELSE LET byte == Get(c.bytecode, c.byte_pos)
             mask == Shl8(Mask(bit_count), c.bit_pos)
             v == BitAnd(byte, mask, 8) \div Pow2(c.bit_pos)
         IN  MapVal(inc_bits(c, bit_count), v)

(* impl Read for Cursor<&[u8]> *)

is_end(c) == c.byte_pos >= c.len

\* peek_u8 without its eof test
peek_u8_NoEofCheck(c) ==
    IF c.byte_pos >= c.len THEN Panic(c)
    ELSE Ok(c, Get(c.bytecode, c.byte_pos))

peek_u8(c) ==
    IF c.eof THEN Err(c, EofRes)
    ELSE IF c.byte_pos >= c.len THEN Panic(c)
    ELSE Ok(c, Get(c.bytecode, c.byte_pos))

read_bool(c) ==
    IF c.eof THEN Err(c, EofRes)
    ELSE Try(extract(c, 1),
             LAMBDA r : Ok(r.c, IF r.val = 1 THEN 1 ELSE 0))

\* read_u2 .. read_u7; the extracted value always fits the target type
read_uN(c, n) == extract(c, n)

read_bits(c, n) == IF n = 1 THEN read_bool(c) ELSE read_uN(c, n)

read_u8(c) ==
    IF c.eof THEN Err(c, EofRes)
    ELSE IF c.byte_pos >= c.len THEN Panic(c)
    ELSE MapVal(inc_bytes(c, 1), Get(c.bytecode, c.byte_pos))

read_u16(c) ==
    IF c.eof THEN Err(c, EofRes)
    ELSE IF c.byte_pos + 2 > c.len THEN Panic(c)
    ELSE MapVal(inc_bytes(c, 2),
                FromLeBytes(Slice(c.bytecode, c.byte_pos, 2)))

read_bytes32(c) ==
    IF c.eof THEN Err(c, EofRes)
    ELSE IF c.byte_pos + 32 > c.len THEN Panic(c)
    ELSE MapVal(inc_bytes(c, 32), Slice(c.bytecode, c.byte_pos, 32))

read_slice(c) ==
    IF c.eof THEN Err(c, EofRes)
    ELSE Try(read_u16(c), LAMBDA l :
             Try(inc_bytes(l.c, l.val), LAMBDA r :
                 IF l.c.byte_pos + l.val > c.len THEN Panic(r.c)
                 ELSE Ok(r.c, Slice(c.bytecode, l.c.byte_pos, l.val))))

-----------------------------------------------------------------------------
(* Registers and values (crate::registers, crate::Value) *)

\* A register family member: fam is "A" or "R", code is the 3-bit tag.
RegA(tag) == [fam |-> "A", code |-> tag]
RegR(tag) == [fam |-> "R", code |-> tag]

\* RegA::AP, the arbitrary-precision register, has no static width
AP == 0

NoBits == 0

\* Reg::bits(): the static width in bits, NoBits for None
RegBits(reg) ==
    IF reg.fam = "A"
    THEN IF reg.code = AP THEN NoBits ELSE 4 * Pow2(reg.code)
    ELSE IF reg.code = 0 THEN 128
         ELSE IF reg.code = 1 THEN 160
         ELSE 64 * Pow2(reg.code)

\* Value { len, bytes }: the active bytes; the padding after them is zero
Value(bytes) == [len |-> Len(bytes), bytes |-> bytes]

\* Value::with(slice)
ValueWith(slice) == Value(slice)

\* read_value
read_value(c, reg) ==
    IF c.eof THEN Err(c, EofRes)
    ELSE Try(IF RegBits(reg) # NoBits THEN Ok(c, RegBits(reg) \div 8)
             ELSE read_u16(c),
             LAMBDA l :
                 IF l.c.byte_pos + l.val > c.len THEN Panic(l.c)
                 ELSE MapVal(inc_bytes(l.c, l.val % (U16Max + 1)),
                             ValueWith(Slice(c.bytecode, l.c.byte_pos,
                                             l.val))))

(* impl Write for Cursor<&mut [u8]> *)

\* a sub-byte write that does not shift its data to the bit position
write_uN_Unshifted(c, n, data) ==
    IF c.byte_pos >= c.len THEN Panic(c)
    ELSE LET b == Put(c.bytecode, c.byte_pos,
                      BitOr(Get(c.bytecode, c.byte_pos), data, 8))
         IN  inc_bits([c EXCEPT !.bytecode = b], n)

\* write_bool, write_u2 .. write_u7: data is already of the field's type
write_uN(c, n, data) ==
    IF c.byte_pos >= c.len THEN Panic(c)
    ELSE LET d == Shl8(data, c.bit_pos)
             b == Put(c.bytecode, c.byte_pos,
                      BitOr(Get(c.bytecode, c.byte_pos), d, 8))
         IN  inc_bits([c EXCEPT !.bytecode = b], n)

write_u8(c, data) ==
    IF c.byte_pos >= c.len THEN Panic(c)
    ELSE inc_bytes([c EXCEPT !.bytecode = Put(c.bytecode, c.byte_pos, data)],
                   1)

write_u16_BigEndian(c, data) ==
    IF c.byte_pos >= c.len THEN Panic(c)
    ELSE LET b1 == Put(c.bytecode, c.byte_pos, ToLeBytes(data)[2])
         IN  IF c.byte_pos + 1 >= c.len
             THEN Panic([c EXCEPT !.bytecode = b1])
             ELSE inc_bytes([c EXCEPT !.bytecode =
                                Put(b1, c.byte_pos + 1, ToLeBytes(data)[1])],
                            2)

write_u16(c, data) ==
    IF c.byte_pos >= c.len THEN Panic(c)
    ELSE LET b1 == Put(c.bytecode, c.byte_pos, ToLeBytes(data)[1])
         IN  IF c.byte_pos + 1 >= c.len
             THEN Panic([c EXCEPT !.bytecode = b1])
             ELSE inc_bytes([c EXCEPT !.bytecode =
                                Put(b1, c.byte_pos + 1, ToLeBytes(data)[2])],
                            2)

write_bytes32(c, data) ==
    IF c.byte_pos + 32 > c.len THEN Panic(c)
    ELSE inc_bytes([c EXCEPT !.bytecode =
                       CopyFromSlice(c.bytecode, c.byte_pos, data)], 32)

write_slice(c, bytes) ==
    IF c.byte_pos + Len(bytes) > c.len THEN Panic(c)
    ELSE inc_bytes([c EXCEPT !.bytecode =
                       CopyFromSlice(c.bytecode, c.byte_pos, bytes)],
                   Len(bytes) % (U16Max + 1))

\* write_value; the result of the write_u16 of the length is dropped
write_value(c, reg, value) ==
    LET len == IF RegBits(reg) # NoBits THEN RegBits(reg) \div 8
               ELSE value.len
    IN  Dropped(IF RegBits(reg) # NoBits THEN Ok(c, 0)
                ELSE write_u16(c, value.len),
                LAMBDA w :
                    IF ~(len >= value.len) THEN Panic(w)
                    ELSE IF w.byte_pos + value.len > c.len THEN Panic(w)
                    ELSE inc_bytes([w EXCEPT !.bytecode =
                                       CopyFromSlice(w.bytecode, w.byte_pos,
                                                     value.bytes)], len))

-----------------------------------------------------------------------------
(* Opcodes (the INSTR_* constants of crate::instr; the values are those the
   variants of Instr and ControlFlowOp are annotated with in
   src/src/instruction.rs, consecutive within a category) *)

INSTR_FAIL == 0
INSTR_SUCC == 1
INSTR_JMP == 2
INSTR_JIF == 3
INSTR_ROUTINE == 4
INSTR_CALL == 5
INSTR_EXEC == 6
INSTR_RET == 7
INSTR_ZEROA == 8
INSTR_ZEROR == 9
INSTR_CLA == 10
INSTR_CLR == 11
INSTR_PUTA == 12
INSTR_PUTR == 13
INSTR_PUTIFA == 14
INSTR_PUTIFR == 15
INSTR_SWPA == 16
INSTR_SWPR == 17
INSTR_SWPAR == 18
INSTR_AMOV == 19
INSTR_MOVA == 20
INSTR_MOVR == 21
INSTR_MOVAR == 22
INSTR_MOVRA == 23
INSTR_GT == 24
INSTR_LT == 25
INSTR_EQA == 26
INSTR_EQR == 27
INSTR_LEN == 28
INSTR_CNT == 29
INSTR_ST2A == 30
INSTR_A2ST == 31
INSTR_NEG == 32
INSTR_STP == 33
INSTR_ADD == 34
INSTR_SUB == 35
INSTR_MUL == 36
INSTR_DIV == 37
INSTR_MOD == 38
INSTR_ABS == 39
INSTR_AND == 40
INSTR_OR == 41
INSTR_XOR == 42
INSTR_NOT == 43
INSTR_SHL == 44
INSTR_SHR == 45
INSTR_SCL == 46
INSTR_SCR == 47
INSTR_PUT == 48
INSTR_TRANSL == 63
INSTR_RIPEMD == 64
INSTR_HASH5 == 71
INSTR_SECP_GEN == 72
INSTR_SECP_NEG == 75
INSTR_ED_GEN == 76
INSTR_ED_NEG == 79
INSTR_NOP == 255

\* RangeInclusive<u8>
Range(lo, hi) == [lo |-> lo, hi |-> hi]
Contains(r, b) == r.lo <= b /\ b <= r.hi

-----------------------------------------------------------------------------
(* Instructions: [cat, op, a, site, value]: a is the tuple of the variant's
   integer fields, site its LibSite and value its Value, when it has one *)

NoSite == [pos |-> 0, lib |-> <<>>]
NoValue == [len |-> 0, bytes |-> <<>>]

I(cat, op, a) ==
    [cat |-> cat, op |-> op, a |-> a, site |-> NoSite, value |-> NoValue]
WithSite(cat, op, st) ==
    [cat |-> cat, op |-> op, a |-> <<>>, site |-> st, value |-> NoValue]
WithValue(cat, op, a, v) ==
    [cat |-> cat, op |-> op, a |-> a, site |-> NoSite, value |-> v]

Nop == I("Nop", "Nop", <<>>)

\* LibSite::with(pos, lib)
LibSite(pos, lib) == [pos |-> pos, lib |-> lib]

\* todo!(): the call aborts
Todo == 0 - 1

\* a sequence of sub-byte fields <<width, data>>, each written with `?`
RECURSIVE WriteFields(_, _)
WriteFields(c, fs) ==
    IF fs = <<>> THEN Ok(c, 0)
    ELSE Try(write_uN(c, fs[1][1], fs[1][2]),
             LAMBDA r : WriteFields(r.c, Tail(fs)))

\* a sequence of sub-byte fields read with `?`, left to right
RECURSIVE ReadFields(_, _, _)
ReadFields(c, ws, acc) ==
    IF ws = <<>> THEN Ok(c, acc)
    ELSE Try(read_bits(c, ws[1]),
             LAMBDA r : ReadFields(r.c, Tail(ws), Append(acc, r.val)))

(* impl Bytecode for ControlFlowOp *)

ControlFlowOp_byte_count(i) ==
    CASE i.op \in {"Fail", "Succ"} -> 1
      [] i.op \in {"Jmp", "Jif"} -> 3
      [] i.op = "Routine" -> 3
      [] i.op = "Call" -> 3 + 32
      [] i.op = "Exec" -> 3 + 32
      [] i.op = "Ret" -> 1

ControlFlowOp_instr_range == Range(INSTR_FAIL, INSTR_RET)

ControlFlowOp_instr_byte(i) ==
    CASE i.op = "Fail" -> INSTR_FAIL
      [] i.op = "Succ" -> INSTR_SUCC
      [] i.op = "Jmp" -> INSTR_JMP
      [] i.op = "Jif" -> INSTR_JIF
      [] i.op = "Routine" -> INSTR_ROUTINE
      [] i.op = "Call" -> INSTR_CALL
      [] i.op = "Exec" -> INSTR_EXEC
      [] i.op = "Ret" -> INSTR_RET

ControlFlowOp_write_args(c, i) ==
    CASE i.op \in {"Fail", "Succ", "Ret"} -> Ok(c, 0)
      [] i.op \in {"Jmp", "Jif", "Routine"} -> write_u16(c, i.a[1])
      [] i.op \in {"Call", "Exec"} ->
            Try(write_u16(c, i.site.pos),
                LAMBDA r : write_bytes32(r.c, i.site.lib))

ControlFlowOp_read(c) ==
    Try(read_u8(c), LAMBDA o :
        LET U16(op) ==
                Try(read_u16(o.c),
                    LAMBDA r : Ok(r.c, I("ControlFlow", op, <<r.val>>)))
            Site(op) ==
                Try(read_u16(o.c), LAMBDA p :
                    Try(read_bytes32(p.c), LAMBDA h :
                        Ok(h.c, WithSite("ControlFlow", op,
                                         LibSite(p.val, h.val)))))
        IN  CASE o.val = INSTR_FAIL -> Ok(o.c, I("ControlFlow", "Fail", <<>>))
              [] o.val = INSTR_SUCC -> Ok(o.c, I("ControlFlow", "Succ", <<>>))
              [] o.val = INSTR_JMP -> U16("Jmp")
              [] o.val = INSTR_JIF -> U16("Jif")
              [] o.val = INSTR_ROUTINE -> U16("Routine")
              [] o.val = INSTR_CALL -> Site("Call")
              [] o.val = INSTR_EXEC -> Site("Exec")
              [] o.val = INSTR_RET -> Ok(o.c, I("ControlFlow", "Ret", <<>>))
              [] OTHER -> Panic(o.c))

(* impl Bytecode for PutOp *)

\* the register a Put operand names
PutReg(i) == IF i.op \in {"ZeroA", "ClA", "PutA", "PutIfA"}
             THEN RegA(i.a[1]) ELSE RegR(i.a[1])

\* 2u16.saturating_add(n)
SaturatingAdd(a, b) == IF a + b > U16Max THEN U16Max ELSE a + b

PutOp_byte_count(i) ==
    IF i.op \in {"ZeroA", "ZeroR", "ClA", "ClR"} THEN 2
    ELSE SaturatingAdd(2, IF RegBits(PutReg(i)) # NoBits
                          THEN RegBits(PutReg(i)) \div 8
                          ELSE i.value.len)

PutOp_instr_range == Range(INSTR_ZEROA, INSTR_PUTIFR)

PutOp_instr_byte(i) ==
    CASE i.op = "ZeroA" -> INSTR_ZEROA
      [] i.op = "ZeroR" -> INSTR_ZEROR
      [] i.op = "ClA" -> INSTR_CLA
      [] i.op = "ClR" -> INSTR_CLR
      [] i.op = "PutA" -> INSTR_PUTA
      [] i.op = "PutR" -> INSTR_PUTR
      [] i.op = "PutIfA" -> INSTR_PUTIFA
      [] i.op = "PutIfR" -> INSTR_PUTIFR

PutOp_write_args(c, i) ==
    Try(WriteFields(c, <<<<3, i.a[1]>>, <<5, i.a[2]>>>>), LAMBDA r :
        IF i.op \in {"ZeroA", "ZeroR", "ClA", "ClR"} THEN r
        ELSE write_value(r.c, PutReg(i), i.value))

PutOp_read(c) ==
    Try(read_u8(c), LAMBDA o :
        LET Plain(op) ==
                Try(ReadFields(o.c, <<3, 5>>, <<>>),
                    LAMBDA r : Ok(r.c, I("Put", op, r.val)))
            Valued(op, fam) ==
                Try(ReadFields(o.c, <<3, 5>>, <<>>), LAMBDA r :
                    Try(read_value(r.c, [fam |-> fam, code |-> r.val[1]]),
                        LAMBDA v :
                            Ok(v.c, WithValue("Put", op, r.val, v.val))))
        IN  CASE o.val = INSTR_ZEROA -> Plain("ZeroA")
              [] o.val = INSTR_ZEROR -> Plain("ZeroR")
              [] o.val = INSTR_CLA -> Plain("ClA")
              [] o.val = INSTR_CLR -> Plain("ClR")
              [] o.val = INSTR_PUTA -> Valued("PutA", "A")
              [] o.val = INSTR_PUTR -> Valued("PutR", "R")
              [] o.val = INSTR_PUTIFA -> Valued("PutIfA", "A")
              [] o.val = INSTR_PUTIFR -> Valued("PutIfR", "R")
              [] OTHER -> Panic(o.c))

(* impl Bytecode for MoveOp *)

MoveOp_byte_count(i) ==
    CASE i.op \in {"SwpA", "SwpR", "SwpAR"} -> 3
      [] i.op = "AMov" -> 2
      [] i.op \in {"MovA", "MovR", "MovAR", "MovRA"} -> 3

MoveOp_instr_range_Overlapping == Range(INSTR_PUTIFR, INSTR_MOVRA)

MoveOp_instr_range == Range(INSTR_SWPA, INSTR_MOVRA)

MoveOp_instr_byte(i) ==
    CASE i.op = "SwpA" -> INSTR_SWPA
      [] i.op = "SwpR" -> INSTR_SWPR
      [] i.op = "SwpAR" -> INSTR_SWPAR
      [] i.op = "AMov" -> INSTR_AMOV
      [] i.op = "MovA" -> INSTR_MOVA
      [] i.op = "MovR" -> INSTR_MOVR
      [] i.op = "MovAR" -> INSTR_MOVAR
      [] i.op = "MovRA" -> INSTR_MOVRA

MoveOp_write_args(c, i) ==
    IF i.op = "AMov"
    THEN WriteFields(c, <<<<3, i.a[1]>>, <<3, i.a[2]>>, <<2, i.a[3]>>>>)
    ELSE WriteFields(c, <<<<3, i.a[1]>>, <<5, i.a[2]>>,
                          <<3, i.a[3]>>, <<5, i.a[4]>>>>)

MoveOp_read(c) ==
    Try(read_u8(c), LAMBDA o :
        LET Args(op, ws) ==
                Try(ReadFields(o.c, ws, <<>>),
                    LAMBDA r : Ok(r.c, I("Move", op, r.val)))
        IN  CASE o.val = INSTR_SWPA -> Args("SwpA", <<3, 5, 3, 5>>)
              [] o.val = INSTR_SWPR -> Args("SwpR", <<3, 5, 3, 5>>)
              [] o.val = INSTR_SWPAR -> Args("SwpAR", <<3, 5, 3, 5>>)
              [] o.val = INSTR_MOVA -> Args("MovA", <<3, 5, 3, 5>>)
              [] o.val = INSTR_MOVR -> Args("MovR", <<3, 5, 3, 5>>)
              [] o.val = INSTR_MOVAR -> Args("MovAR", <<3, 5, 3, 5>>)
              [] o.val = INSTR_MOVRA -> Args("MovRA", <<3, 5, 3, 5>>)
              [] o.val = INSTR_AMOV -> Args("AMov", <<3, 3, 2>>)
              [] OTHER -> Panic(o.c))

(* impl Bytecode for CmpOp *)

CmpOp_byte_count(i) ==
    CASE i.op \in {"Gt", "Lt", "EqA", "EqR"} -> 3
      [] i.op \in {"Len", "Cnt"} -> 2
      [] i.op \in {"St2A", "A2St"} -> 1

CmpOp_instr_range == Range(INSTR_GT, INSTR_A2ST)

CmpOp_instr_byte(i) ==
    CASE i.op = "Gt" -> INSTR_GT
      [] i.op = "Lt" -> INSTR_LT
      [] i.op = "EqA" -> INSTR_EQA
      [] i.op = "EqR" -> INSTR_EQR
      [] i.op = "Len" -> INSTR_LEN
      [] i.op = "Cnt" -> INSTR_CNT
      [] i.op = "St2A" -> INSTR_ST2A
      [] i.op = "A2St" -> INSTR_A2ST

CmpOp_write_args(c, i) ==
    CASE i.op \in {"Gt", "Lt", "EqA", "EqR"} ->
            WriteFields(c, <<<<3, i.a[1]>>, <<5, i.a[2]>>,
                             <<3, i.a[3]>>, <<5, i.a[4]>>>>)
      [] i.op \in {"Len", "Cnt"} ->
            WriteFields(c, <<<<3, i.a[1]>>, <<5, i.a[2]>>>>)
      [] i.op \in {"St2A", "A2St"} -> Ok(c, 0)

CmpOp_read(c) ==
    Try(read_u8(c), LAMBDA o :
        LET Args(op, ws) ==
                Try(ReadFields(o.c, ws, <<>>),
                    LAMBDA r : Ok(r.c, I("Cmp", op, r.val)))
        IN  CASE o.val = INSTR_GT -> Args("Gt", <<3, 5, 3, 5>>)
              [] o.val = INSTR_LT -> Args("Lt", <<3, 5, 3, 5>>)
              [] o.val = INSTR_EQA -> Args("EqA", <<3, 5, 3, 5>>)
              [] o.val = INSTR_EQR -> Args("EqR", <<3, 5, 3, 5>>)
              [] o.val = INSTR_LEN -> Args("Len", <<3, 5>>)
              [] o.val = INSTR_CNT -> Args("Cnt", <<3, 5>>)
              [] o.val = INSTR_ST2A -> Ok(o.c, I("Cmp", "St2A", <<>>))
              [] o.val = INSTR_A2ST -> Ok(o.c, I("Cmp", "A2St", <<>>))
              [] OTHER -> Panic(o.c))

(* impl Bytecode for ArithmeticOp *)

ArithmeticOp_byte_count(i) ==
    CASE i.op = "Neg" -> 2
      [] i.op = "Stp" -> 3
      [] i.op \in {"Add", "Sub", "Mul", "Div"} -> 3
      [] i.op = "Mod" -> 4
      [] i.op = "Abs" -> 2

ArithmeticOp_instr_range == Range(INSTR_NEG, INSTR_ABS)

ArithmeticOp_instr_byte(i) ==
    CASE i.op = "Neg" -> INSTR_NEG
      [] i.op = "Stp" -> INSTR_STP
      [] i.op = "Add" -> INSTR_ADD
      [] i.op = "Sub" -> INSTR_SUB
      [] i.op = "Mul" -> INSTR_MUL
      [] i.op = "Div" -> INSTR_DIV
      [] i.op = "Mod" -> INSTR_MOD
      [] i.op = "Abs" -> INSTR_ABS

\* Stp(op, ar, reg, idx, step); Add/Sub/Mul/Div(ar, reg, src1, src2)
\* write_args that gives the step of Stp five bits instead of four
ArithmeticOp_write_args_WideStep(c, i) ==
    CASE i.op \in {"Neg", "Abs"} ->
            WriteFields(c, <<<<3, i.a[1]>>, <<5, i.a[2]>>>>)
      [] i.op = "Stp" ->
            WriteFields(c, <<<<3, i.a[3]>>, <<5, i.a[4]>>, <<5, i.a[5]>>,
                             <<1, i.a[1]>>, <<3, i.a[2]>>>>)
      [] i.op \in {"Add", "Sub", "Mul", "Div"} ->
            WriteFields(c, <<<<3, i.a[2]>>, <<5, i.a[3]>>,
                             <<5, i.a[4]>>, <<3, i.a[1]>>>>)
      [] i.op = "Mod" ->
            WriteFields(c, <<<<3, i.a[1]>>, <<5, i.a[2]>>, <<3, i.a[3]>>,
                             <<5, i.a[4]>>, <<3, i.a[5]>>, <<5, i.a[6]>>>>)

ArithmeticOp_write_args(c, i) ==
    CASE i.op \in {"Neg", "Abs"} ->
            WriteFields(c, <<<<3, i.a[1]>>, <<5, i.a[2]>>>>)
      [] i.op = "Stp" ->
            WriteFields(c, <<<<3, i.a[3]>>, <<5, i.a[4]>>, <<4, i.a[5]>>,
                             <<1, i.a[1]>>, <<3, i.a[2]>>>>)
      [] i.op \in {"Add", "Sub", "Mul", "Div"} ->
            WriteFields(c, <<<<3, i.a[2]>>, <<5, i.a[3]>>,
                             <<5, i.a[4]>>, <<3, i.a[1]>>>>)
      [] i.op = "Mod" ->
            WriteFields(c, <<<<3, i.a[1]>>, <<5, i.a[2]>>, <<3, i.a[3]>>,
                             <<5, i.a[4]>>, <<3, i.a[5]>>, <<5, i.a[6]>>>>)

ArithmeticOp_read(c) ==
    Try(read_u8(c), LAMBDA o :
        LET Args(op, ws) ==
                Try(ReadFields(o.c, ws, <<>>),
                    LAMBDA r : Ok(r.c, I("Arithmetic", op, r.val)))
            Binary(op) ==
                Try(ReadFields(o.c, <<3, 5, 5, 3>>, <<>>), LAMBDA r :
                    Ok(r.c, I("Arithmetic", op,
                              <<r.val[4], r.val[1], r.val[2], r.val[3]>>)))
        IN  CASE o.val = INSTR_NEG -> Args("Neg", <<3, 5>>)
              [] o.val = INSTR_STP ->
                    Try(ReadFields(o.c, <<3, 5, 4, 1, 3>>, <<>>), LAMBDA r :
                        Ok(r.c, I("Arithmetic", "Stp",
                                  <<r.val[4], r.val[5], r.val[1],
                                    r.val[2], r.val[3]>>)))
              [] o.val = INSTR_ADD -> Binary("Add")
              [] o.val = INSTR_SUB -> Binary("Sub")
              [] o.val = INSTR_MUL -> Binary("Mul")
              [] o.val = INSTR_DIV -> Binary("Div")
              [] o.val = INSTR_MOD -> Args("Mod", <<3, 5, 3, 5, 3, 5>>)
              [] o.val = INSTR_ABS -> Args("Abs", <<3, 5>>)
              [] OTHER -> Panic(o.c))

(* impl Bytecode for BitwiseOp *)

BitwiseOp_byte_count(i) ==
    CASE i.op \in {"And", "Or", "Xor"} -> 3
      [] i.op = "Not" -> 2
      [] i.op \in {"Shl", "Shr", "Scl", "Scr"} -> 3

BitwiseOp_instr_range == Range(INSTR_AND, INSTR_SCR)

BitwiseOp_instr_byte(i) ==
    CASE i.op = "And" -> INSTR_AND
      [] i.op = "Or" -> INSTR_OR
      [] i.op = "Xor" -> INSTR_XOR
      [] i.op = "Not" -> INSTR_NOT
      [] i.op = "Shl" -> INSTR_SHL
      [] i.op = "Shr" -> INSTR_SHR
      [] i.op = "Scl" -> INSTR_SCL
      [] i.op = "Scr" -> INSTR_SCR

BitwiseOp_write_args(c, i) ==
    IF i.op = "Not"
    THEN WriteFields(c, <<<<3, i.a[1]>>, <<5, i.a[2]>>>>)
    ELSE WriteFields(c, <<<<3, i.a[1]>>, <<5, i.a[2]>>,
                          <<5, i.a[3]>>, <<3, i.a[4]>>>>)

BitwiseOp_read(c) ==
    Try(read_u8(c), LAMBDA o :
        IF o.val = INSTR_NOT
        THEN Try(ReadFields(o.c, <<3, 5>>, <<>>),
                 LAMBDA r : Ok(r.c, I("Bitwise", "Not", r.val)))
        ELSE Try(ReadFields(o.c, <<3, 5, 5, 3>>, <<>>), LAMBDA r :
                 CASE o.val = INSTR_AND -> Ok(r.c, I("Bitwise", "And", r.val))
                   [] o.val = INSTR_OR -> Ok(r.c, I("Bitwise", "Or", r.val))
                   [] o.val = INSTR_XOR -> Ok(r.c, I("Bitwise", "Xor", r.val))
                   [] o.val = INSTR_SHL -> Ok(r.c, I("Bitwise", "Shl", r.val))
                   [] o.val = INSTR_SHR -> Ok(r.c, I("Bitwise", "Shr", r.val))
                   [] o.val = INSTR_SCL -> Ok(r.c, I("Bitwise", "Scl", r.val))
                   [] o.val = INSTR_SCR -> Ok(r.c, I("Bitwise", "Scr", r.val))
                   [] OTHER -> Panic(r.c)))

(* impl Bytecode for BytesOp, DigestOp, SecpOp, Curve25519Op, Nop: only
   byte_count and instr_range are written; instr_byte, write_args and read
   are todo!() *)

BytesOp_instr_range == Range(INSTR_PUT, INSTR_TRANSL)
DigestOp_instr_range == Range(INSTR_RIPEMD, INSTR_HASH5)
SecpOp_instr_range == Range(INSTR_SECP_GEN, INSTR_SECP_NEG)
Curve25519Op_instr_range == Range(INSTR_ED_GEN, INSTR_ED_NEG)
Nop_instr_range == Range(INSTR_NOP, INSTR_NOP)

BytesOp_byte_count(i) ==
    CASE i.op = "Put" -> SaturatingAdd(4, i.value.len)
      [] i.op \in {"Mov", "Swp"} -> 3
      [] i.op = "Fill" -> 7
      [] i.op = "LenS" -> 2
      [] i.op \in {"Count", "Cmp", "Comm", "Find"} -> 3
      [] i.op \in {"ExtrA", "ExtrR"} -> 4
      [] i.op = "Join" -> 4
      [] i.op = "Split" -> 6
      [] i.op \in {"Ins", "Del"} -> 5
      [] i.op = "Transl" -> 7

DigestOp_byte_count(i) == 3

SecpOp_byte_count(i) ==
    CASE i.op = "Gen" -> 2
      [] i.op = "Mul" -> 3
      [] i.op = "Add" -> 3
      [] i.op = "Neg" -> 2

Curve25519Op_byte_count(i) ==
    CASE i.op = "Gen" -> 2
      [] i.op = "Mul" -> 3
      [] i.op = "Add" -> 3
      [] i.op = "Neg" -> 2

Nop_byte_count(i) == 1

\* instr_byte, write_args and read of the five impls above
Todo_instr_byte(i) == Todo
Todo_write_args(c, i) == Panic(c)
Todo_read(c) == Panic(c)

(* The host extension.  The repository's own extension type is Nop, whose
   codec is todo!(); a host-provided extension is modelled by its contract:
   a declared opcode range and one-byte instructions. *)

NopExt == [kind |-> "Nop", range |-> Nop_instr_range]
HostExt == [kind |-> "Host", range |-> Range(128, 191)]

Extension_byte_count(i) == 1
Extension_instr_byte(i) == IF i.op = "Nop" THEN Todo ELSE i.a[1]
Extension_write_args(c, i) == IF i.op = "Nop" THEN Panic(c) ELSE Ok(c, 0)
Extension_read(c, e) ==
    IF e.kind = "Nop" THEN Todo_read(c)
    ELSE Try(read_u8(c),
             LAMBDA o : Ok(o.c, I("ExtensionCodes", "Ext", <<o.val>>)))

(* impl Bytecode for Instr<Extension> *)

byte_count(i) ==
    CASE i.cat = "ControlFlow" -> ControlFlowOp_byte_count(i)
      [] i.cat = "Put" -> PutOp_byte_count(i)
      [] i.cat = "Move" -> MoveOp_byte_count(i)
      [] i.cat = "Cmp" -> CmpOp_byte_count(i)
      [] i.cat = "Arithmetic" -> ArithmeticOp_byte_count(i)
      [] i.cat = "Bitwise" -> BitwiseOp_byte_count(i)
      [] i.cat = "Bytes" -> BytesOp_byte_count(i)
      [] i.cat = "Digest" -> DigestOp_byte_count(i)
      [] i.cat = "Secp256k1" -> SecpOp_byte_count(i)
      [] i.cat = "Curve25519" -> Curve25519Op_byte_count(i)
      [] i.cat = "ExtensionCodes" -> Extension_byte_count(i)
      [] i.cat = "Nop" -> 1

instr_byte(i) ==
    CASE i.cat = "ControlFlow" -> ControlFlowOp_instr_byte(i)
      [] i.cat = "Put" -> PutOp_instr_byte(i)
      [] i.cat = "Move" -> MoveOp_instr_byte(i)
      [] i.cat = "Cmp" -> CmpOp_instr_byte(i)
      [] i.cat = "Arithmetic" -> ArithmeticOp_instr_byte(i)
      [] i.cat = "Bitwise" -> BitwiseOp_instr_byte(i)
      [] i.cat \in {"Bytes", "Digest", "Secp256k1", "Curve25519"} ->
            Todo_instr_byte(i)
      [] i.cat = "ExtensionCodes" -> Extension_instr_byte(i)
      [] i.cat = "Nop" -> 1

write_args(c, i) ==
    CASE i.cat = "ControlFlow" -> ControlFlowOp_write_args(c, i)
      [] i.cat = "Put" -> PutOp_write_args(c, i)
      [] i.cat = "Move" -> MoveOp_write_args(c, i)
      [] i.cat = "Cmp" -> CmpOp_write_args(c, i)
      [] i.cat = "Arithmetic" -> ArithmeticOp_write_args(c, i)
      [] i.cat = "Bitwise" -> BitwiseOp_write_args(c, i)
      [] i.cat \in {"Bytes", "Digest", "Secp256k1", "Curve25519"} ->
            Todo_write_args(c, i)
      [] i.cat = "ExtensionCodes" -> Extension_write_args(c, i)
      [] i.cat = "Nop" -> Ok(c, 0)

\* Bytecode::write: the result of write_u8 is dropped
write(c, i) ==
    IF instr_byte(i) = Todo THEN Panic(c)
    ELSE Dropped(write_u8(c, instr_byte(i)), LAMBDA w : write_args(w, i))

\* the arms of the match in Instr::read, in the order they are tested
Arms(e) ==
    << [cat |-> "ControlFlow", range |-> ControlFlowOp_instr_range],
       [cat |-> "Put", range |-> PutOp_instr_range],
       [cat |-> "Move", range |-> MoveOp_instr_range],
       [cat |-> "Cmp", range |-> CmpOp_instr_range],
       [cat |-> "Arithmetic", range |-> ArithmeticOp_instr_range],
       [cat |-> "Bitwise", range |-> BitwiseOp_instr_range],
       [cat |-> "Bytes", range |-> BytesOp_instr_range],
       [cat |-> "Digest", range |-> DigestOp_instr_range],
       [cat |-> "Secp256k1", range |-> SecpOp_instr_range],
       [cat |-> "Curve25519", range |-> Curve25519Op_instr_range],
       [cat |-> "ExtensionCodes", range |-> e.range],
       [cat |-> "Nop", range |-> Range(INSTR_NOP, INSTR_NOP)] >>

\* the first arm whose guard accepts the opcode byte
RECURSIVE Classify(_, _)
Classify(b, arms) ==
    IF arms = <<>> THEN "unreachable"
    ELSE IF Contains(arms[1].range, b) THEN arms[1].cat
    ELSE Classify(b, Tail(arms))

\* Instr::read
read(c, e) ==
    LET Arm(cat) ==
            CASE cat = "ControlFlow" -> ControlFlowOp_read(c)
              [] cat = "Put" -> PutOp_read(c)
              [] cat = "Move" -> MoveOp_read(c)
              [] cat = "Cmp" -> CmpOp_read(c)
              [] cat = "Arithmetic" -> ArithmeticOp_read(c)
              [] cat = "Bitwise" -> BitwiseOp_read(c)
              [] cat \in {"Bytes", "Digest", "Secp256k1", "Curve25519"}
                   -> Todo_read(c)
              [] cat = "ExtensionCodes" -> Extension_read(c, e)
              [] cat = "Nop" -> Ok(c, Nop)
              [] cat = "unreachable" -> Panic(c)
    IN  Try(peek_u8(c), LAMBDA p : Arm(Classify(p.val, Arms(e))))

-----------------------------------------------------------------------------
(* The instructions the codec is exercised on *)

Hash0 == [k \in 1..32 |-> 0]
Hash1 == [k \in 1..32 |-> k]

Offsets == {0, 258, U16Max}
Sites == {LibSite(3, Hash0), LibSite(513, Hash1)}
Pairs == {<<1, 0, 2, 31>>, <<7, 31, 0, 1>>}
Singles == {<<0, 0>>, <<2, 31>>, <<7, 5>>}

\* (register tag, value) for PutA/PutIfA: values as wide as the register,
\* a value shorter than the register, and values for the register AP
ValuesA == {<<1, Value(<<5>>)>>, <<2, Value(<<5, 1>>)>>, <<2, Value(<<7>>)>>,
            <<AP, Value(<<>>)>>, <<AP, Value(<<9>>)>>,
            <<AP, Value(<<1, 2, 3>>)>>}
ValuesR == {<<0, Value([k \in 1..16 |-> 255])>>,
            <<1, Value([k \in 1..20 |-> k])>>}

ControlFlowInstrs ==
    {I("ControlFlow", op, <<>>) : op \in {"Fail", "Succ", "Ret"}}
    \cup {I("ControlFlow", op, <<o>>) :
            op \in {"Jmp", "Jif", "Routine"}, o \in Offsets}
    \cup {WithSite("ControlFlow", op, st) :
            op \in {"Call", "Exec"}, st \in Sites}

PutInstrs ==
    {I("Put", op, a) : op \in {"ZeroA", "ZeroR", "ClA", "ClR"}, a \in Singles}
    \cup {WithValue("Put", op, <<rv[1], 31>>, rv[2]) :
            op \in {"PutA", "PutIfA"}, rv \in ValuesA}
    \cup {WithValue("Put", op, <<rv[1], 1>>, rv[2]) :
            op \in {"PutR", "PutIfR"}, rv \in ValuesR}

MoveInstrs ==
    {I("Move", op, a) :
        op \in {"SwpA", "SwpR", "SwpAR", "MovA", "MovR", "MovAR", "MovRA"},
        a \in Pairs}
    \cup {I("Move", "AMov", a) : a \in {<<1, 2, 0>>, <<7, 0, 3>>}}

CmpInstrs ==
    {I("Cmp", op, a) : op \in {"Gt", "Lt", "EqA", "EqR"}, a \in Pairs}
    \cup {I("Cmp", op, a) : op \in {"Len", "Cnt"}, a \in Singles}
    \cup {I("Cmp", op, <<>>) : op \in {"St2A", "A2St"}}

ArithmeticInstrs ==
    {I("Arithmetic", op, a) : op \in {"Neg", "Abs"}, a \in Singles}
    \cup {I("Arithmetic", "Stp", a) :
            a \in {<<1, 0, 1, 0, 1>>, <<0, 7, 7, 31, 15>>, <<1, 5, 2, 3, 0>>}}
    \cup {I("Arithmetic", op, a) :
            op \in {"Add", "Sub", "Mul", "Div"},
            a \in {<<1, 1, 0, 1>>, <<7, 7, 31, 30>>}}
    \cup {I("Arithmetic", "Mod", a) :
            a \in {<<1, 0, 2, 1, 3, 2>>, <<7, 31, 0, 0, 5, 17>>}}

BitwiseInstrs ==
    {I("Bitwise", op, a) :
        op \in {"And", "Or", "Xor", "Shl", "Shr", "Scl", "Scr"},
        a \in {<<1, 0, 1, 2>>, <<7, 31, 30, 7>>}}
    \cup {I("Bitwise", "Not", a) : a \in Singles}

\* the categories whose codec is written
Implemented == {"ControlFlow", "Put", "Move", "Cmp", "Arithmetic", "Bitwise",
                "Nop"}

Instrs == ControlFlowInstrs \cup PutInstrs \cup MoveInstrs \cup CmpInstrs
          \cup ArithmeticInstrs \cup BitwiseInstrs \cup {Nop}

NoInstr == I("None", "None", <<>>)

-----------------------------------------------------------------------------
(* The register file and the execution of instructions.

   instruction.rs calls Registers::jmp, Registers::call and Registers::ret
   and assigns Registers::st0; the module registers itself is not among the
   sources, so the control registers and these three methods follow the
   specification's description of them. *)

\* depth of the call stack cs0
CallStackDepth == 256

\* a register bank with every slot uninitialized; a bank is a function from
\* the initialized slots <<register, index>> to their values
NoSlots == [k \in {} |-> NoValue]

\* Registers::default(): st0 = true, counters zero, call stack empty, every
\* slot of the A and R registers uninitialized
Registers ==
    [st0 |-> TRUE, cy0 |-> 0, cp0 |-> 0, cs0 |-> <<>>,
     a |-> NoSlots, r |-> NoSlots]

\* Option<Value>
None == [some |-> FALSE, v |-> NoValue]
Some(v) == [some |-> TRUE, v |-> v]

\* Registers::get: the value of a slot, or absent
get(r, reg, idx) ==
    LET bank == IF reg.fam = "A" THEN r.a ELSE r.r
        key == <<reg.code, idx>>
    IN  IF key \in DOMAIN bank THEN Some(bank[key]) ELSE None

\* the first n bytes of a value that is longer than n bytes
Truncate(v, n) ==
    IF v.len > n THEN [len |-> n, bytes |-> SubSeq(v.bytes, 1, n)] ELSE v

\* a value as a register holds it: the most significant bytes beyond the
\* register's width are dropped
Fit(reg, v) ==
    IF RegBits(reg) = NoBits THEN v ELSE Truncate(v, RegBits(reg) \div 8)

\* a bank with one slot written or cleared
WithSlot(bank, key, opt) ==
    IF opt.some
    THEN [k \in DOMAIN bank \cup {key} |-> IF k = key THEN opt.v ELSE bank[k]]
    ELSE [k \in DOMAIN bank \ {key} |-> bank[k]]

\* set that stores the value as it is given
set_NoTruncate(r, reg, idx, opt) ==
    LET key == <<reg.code, idx>>
    IN  IF reg.fam = "A" THEN [r EXCEPT !.a = WithSlot(@, key, opt)]
        ELSE [r EXCEPT !.r = WithSlot(@, key, opt)]

\* Registers::set: writes a slot, truncating the most significant bytes of
\* a value wider than the register; None leaves the slot uninitialized
set(r, reg, idx, opt) ==
    LET key == <<reg.code, idx>>
        fit == IF opt.some THEN Some(Fit(reg, opt.v)) ELSE None
    IN  IF reg.fam = "A" THEN [r EXCEPT !.a = WithSlot(@, key, fit)]
        ELSE [r EXCEPT !.r = WithSlot(@, key, fit)]

\* Result<(), ()> and Option<LibSite> of the register methods
Done(r) == [ok |-> TRUE, regs |-> r, site |-> NoSite]
Failed(r) == [ok |-> FALSE, regs |-> r, site |-> NoSite]

\* jmp without the st0 := false of an exhausted counter
jmp_KeepsStatus(r) ==
    IF r.cy0 + 1 > U16Max THEN Failed(r)
    ELSE Done([r EXCEPT !.cy0 = @ + 1])

\* Registers::jmp: bumps cy0; fails when cy0 would overflow, and the
\* exhausted counter leaves st0 = false
jmp(r) ==
    IF r.cy0 + 1 > U16Max THEN Failed([r EXCEPT !.st0 = FALSE])
    ELSE Done([r EXCEPT !.cy0 = @ + 1])

\* Registers::call: bumps cy0 and cp0 and pushes the site on cs0; fails on
\* overflow of either counter or of the stack, leaving st0 = false
call(r, st) ==
    IF \/ r.cy0 + 1 > U16Max
       \/ r.cp0 + 1 > U16Max
       \/ Len(r.cs0) >= CallStackDepth
    THEN Failed([r EXCEPT !.st0 = FALSE])
    ELSE Done([r EXCEPT !.cy0 = @ + 1, !.cp0 = @ + 1,
                        !.cs0 = Append(@, st)])

\* Registers::ret: pops cs0 and decrements cp0; fails on underflow
ret(r) ==
    IF r.cs0 = <<>> THEN Failed(r)
    ELSE [ok |-> TRUE,
          regs |-> [r EXCEPT !.cp0 = @ - 1,
                             !.cs0 = SubSeq(@, 1, Len(@) - 1)],
          site |-> r.cs0[Len(r.cs0)]]

\* enum ExecStep
ExecStep_Stop == [kind |-> "Stop", offset |-> 0, site |-> NoSite]
ExecStep_Next == [kind |-> "Next", offset |-> 0, site |-> NoSite]
ExecStep_Jump(offset) == [kind |-> "Jump", offset |-> offset, site |-> NoSite]
ExecStep_Call(st) == [kind |-> "Call", offset |-> 0, site |-> st]
\* todo!(): exec does not return
Aborted == [kind |-> "Panic", offset |-> 0, site |-> NoSite]

\* .map(|_| then).unwrap_or(ExecStep::Stop) on what a register method returned
MapOrStop(m, then) ==
    [regs |-> m.regs, step |-> IF m.ok THEN then ELSE ExecStep_Stop]

\* <ControlFlowOp as Instruction>::exec(self, regs, site); in the Call arm
\* the pattern binds `site` anew, so regs.call receives the site of the
\* instruction, not the parameter
ControlFlowOp_exec(i, r, st) ==
    CASE i.op = "Fail" ->
            [regs |-> [r EXCEPT !.st0 = FALSE], step |-> ExecStep_Stop]
      [] i.op = "Succ" ->
            [regs |-> [r EXCEPT !.st0 = TRUE], step |-> ExecStep_Stop]
      [] i.op = "Jmp" -> MapOrStop(jmp(r), ExecStep_Jump(i.a[1]))
      [] i.op = "Jif" ->
            IF r.st0 = TRUE THEN MapOrStop(jmp(r), ExecStep_Jump(i.a[1]))
            ELSE [regs |-> r, step |-> ExecStep_Next]
      [] i.op = "Routine" -> MapOrStop(call(r, st), ExecStep_Jump(i.a[1]))
      [] i.op = "Call" -> MapOrStop(call(r, i.site), ExecStep_Call(i.site))
      [] i.op = "Exec" -> MapOrStop(jmp(r), ExecStep_Call(i.site))
      [] i.op = "Ret" ->
            LET m == ret(r) IN MapOrStop(m, ExecStep_Call(m.site))

\* len with a Routine one byte shorter than its encoding
ControlFlowOp_len_ShortRoutine(i) ==
    CASE i.op = "Fail" -> 1
      [] i.op = "Succ" -> 1
      [] i.op = "Jmp" -> 3
      [] i.op = "Jif" -> 3
      [] i.op = "Routine" -> 2
      [] i.op = "Call" -> 3 + 32
      [] i.op = "Exec" -> 3 + 32
      [] i.op = "Ret" -> 1

\* <ControlFlowOp as Instruction>::len
ControlFlowOp_len(i) ==
    CASE i.op = "Fail" -> 1
      [] i.op = "Succ" -> 1
      [] i.op = "Jmp" -> 3
      [] i.op = "Jif" -> 3
      [] i.op = "Routine" -> 3
      [] i.op = "Call" -> 3 + 32
      [] i.op = "Exec" -> 3 + 32
      [] i.op = "Ret" -> 1

\* Value::from(0): the integer literal of `0.into()` is an i32
ZeroValue == Value(<<0, 0, 0, 0>>)

\* exec with conditional puts that assign whatever the slot holds
PutOp_exec_PutIfAlways(i, r, st) ==
    LET reg == PutReg(i)
        idx == i.a[2]
    IN  [regs |->
            CASE i.op \in {"ZeroA", "ZeroR"} ->
                    set(r, reg, idx, Some(ZeroValue))
              [] i.op \in {"ClA", "ClR"} -> set(r, reg, idx, None)
              [] i.op \in {"PutA", "PutR", "PutIfA", "PutIfR"} ->
                    set(r, reg, idx, Some(i.value)),
         step |-> ExecStep_Next]

\* exec with ClA and ClR that leave the slot as it is
PutOp_exec_ClKeeps(i, r, st) ==
    LET reg == PutReg(i)
        idx == i.a[2]
    IN  [regs |->
            CASE i.op \in {"ZeroA", "ZeroR"} ->
                    set(r, reg, idx, Some(ZeroValue))
              [] i.op \in {"ClA", "ClR"} -> r
              [] i.op \in {"PutA", "PutR"} ->
                    set(r, reg, idx, Some(i.value))
              [] i.op \in {"PutIfA", "PutIfR"} ->
                    IF get(r, reg, idx).some THEN r
                    ELSE set(r, reg, idx, Some(i.value)),
         step |-> ExecStep_Next]

\* <PutOp as Instruction>::exec
PutOp_exec(i, r, st) ==
    LET reg == PutReg(i)
        idx == i.a[2]
    IN  [regs |->
            CASE i.op \in {"ZeroA", "ZeroR"} ->
                    set(r, reg, idx, Some(ZeroValue))
              [] i.op \in {"ClA", "ClR"} -> set(r, reg, idx, None)
              [] i.op \in {"PutA", "PutR"} ->
                    set(r, reg, idx, Some(i.value))
              [] i.op \in {"PutIfA", "PutIfR"} ->
                    IF get(r, reg, idx).some THEN r
                    ELSE set(r, reg, idx, Some(i.value)),
         step |-> ExecStep_Next]

\* <PutOp as Instruction>::len
PutOp_len(i) ==
    IF i.op \in {"ZeroA", "ZeroR", "ClA", "ClR"} THEN 2
    ELSE SaturatingAdd(4, i.value.len)

\* the two registers of a move: <<first, second>>
MoveRegs(i) ==
    CASE i.op \in {"SwpA", "MovA"} -> <<RegA(i.a[1]), RegA(i.a[3])>>
      [] i.op \in {"SwpR", "MovR"} -> <<RegR(i.a[1]), RegR(i.a[3])>>
      [] i.op \in {"SwpAR", "MovAR"} -> <<RegA(i.a[1]), RegR(i.a[3])>>
      [] i.op = "MovRA" -> <<RegR(i.a[1]), RegA(i.a[3])>>

\* a swap that copies the first slot into the second and keeps the first
MoveOp_exec_SwpCopies(i, r, st) ==
    IF i.op = "AMov" THEN [regs |-> r, step |-> Aborted]
    ELSE LET reg1 == MoveRegs(i)[1]
             reg2 == MoveRegs(i)[2]
             val1 == get(r, reg1, i.a[2])
         IN  [regs |-> set(r, reg2, i.a[4], val1), step |-> ExecStep_Next]

\* <MoveOp as Instruction>::exec
MoveOp_exec(i, r, st) ==
    IF i.op = "AMov" THEN [regs |-> r, step |-> Aborted]
    ELSE LET reg1 == MoveRegs(i)[1]
             reg2 == MoveRegs(i)[2]
             val1 == get(r, reg1, i.a[2])
             val2 == get(r, reg2, i.a[4])
         IN  [regs |->
                 IF i.op \in {"SwpA", "SwpR", "SwpAR"}
                 THEN set(set(r, reg1, i.a[2], val2), reg2, i.a[4], val1)
                 ELSE set(r, reg2, i.a[4], val1),
              step |-> ExecStep_Next]

\* <MoveOp as Instruction>::len
MoveOp_len(i) ==
    CASE i.op \in {"SwpA", "SwpR", "SwpAR"} -> 3
      [] i.op = "AMov" -> 2
      [] i.op \in {"MovA", "MovR", "MovAR", "MovRA"} -> 3

\* tags of the variants of Arithmetics with signed: false, and one
\* representative of the variants whose arms are todo!()
IntChecked == 0
IntUnchecked == 1
IntCheckedSigned == 3

\* byte widths of amplify::num::u512 and u1024
U512Bytes == 64
U1024Bytes == 128

\* `value.into()`: the little-endian bytes of a value as an n-byte integer
Uint(v, n) == [k \in 1..n |-> IF k <= v.len THEN v.bytes[k] ELSE 0]

\* u512::from_u64(step as u64): a step below 32 in the lowest byte
FromU64(stp, n) == [k \in 1..n |-> IF k = 1 THEN stp ELSE 0]

\* x >= y for two integers of the same byte width
Geq(x, y) ==
    \A k \in 1..Len(x) :
        x[k] < y[k] => \E m \in (k + 1)..Len(x) : x[m] # y[m]

\* x + y at the width of x (the operands of the source never overflow it);
\* a carry enters byte k from a lower byte whose sum exceeds 0xFF, through
\* bytes whose sum is 0xFF
UintAdd(x, y) ==
    LET Carry(k) ==
            \E j \in 1..(k - 1) :
                /\ x[j] + y[j] > U8Max
                /\ \A m \in (j + 1)..(k - 1) : x[m] + y[m] = U8Max
    IN  [k \in 1..Len(x) |->
            (x[k] + y[k] + (IF Carry(k) THEN 1 ELSE 0)) % (U8Max + 1)]

\* x - y at the width of x, for x >= y; a borrow enters byte k from a lower
\* byte of x that is below the byte of y, through bytes that are equal
UintSub(x, y) ==
    LET Borrow(k) ==
            \E j \in 1..(k - 1) :
                /\ x[j] < y[j]
                /\ \A m \in (j + 1)..(k - 1) : x[m] = y[m]
    IN  [k \in 1..Len(x) |->
            (x[k] - y[k] - (IF Borrow(k) THEN 1 ELSE 0) + U8Max + 1)
                % (U8Max + 1)]

\* u512::from_le_bytes([0xFF; 64])
UintMax(n) == [k \in 1..n |-> U8Max]

\* sum of the byte products x[j] * y[k + 1 - j] for j <= upto
RECURSIVE Column(_, _, _, _)
Column(x, y, k, upto) ==
    IF upto = 0 THEN 0
    ELSE (IF k + 1 - upto \in 1..Len(y) THEN x[upto] * y[k + 1 - upto] ELSE 0)
         + Column(x, y, k, upto - 1)

\* x * y at the width of x, schoolbook over the significant bytes
UintMul(x, y) ==
    LET Significant(z) ==
            LET nz == {k \in 1..Len(z) : z[k] # 0}
            IN  IF nz = {} THEN 0 ELSE CHOOSE k \in nz : \A m \in nz : m <= k
        lx == Significant(x)
        ly == Significant(y)
        T[k \in 0..(lx + ly)] ==
            IF k = 0 THEN 0
            ELSE Column(x, y, k, IF k < lx THEN k ELSE lx)
                 + (T[k - 1] \div (U8Max + 1))
    IN  [k \in 1..Len(x) |->
            IF k <= lx + ly THEN T[k] % (U8Max + 1) ELSE 0]

\* blob.bytes[at] = 0xFF ^ blob.bytes[at], `at` counted from 0; a byte
\* beyond the active length is padding
FlipByte(v, at) ==
    IF at + 1 <= v.len
    THEN [v EXCEPT !.bytes[at + 1] = U8Max - @]
    ELSE v

\* <ArithmeticOp as Instruction>::exec, the arm of Inc
Inc_exec(i, r) ==
    LET reg == RegA(i.a[2])
        value == get(r, reg, i.a[3])
        u512_max == UintMax(U512Bytes)
        stp == FromU64(i.a[4], U512Bytes)
        v == Uint(value.v, U512Bytes)
    IN  IF ~value.some THEN [regs |-> r, step |-> ExecStep_Next]
        ELSE CASE i.a[1] = IntChecked ->
                    [regs |-> set(r, reg, i.a[3],
                                IF Geq(stp, UintSub(u512_max, v)) THEN None
                                ELSE Some(Value(UintAdd(v, stp)))),
                     step |-> ExecStep_Next]
               [] i.a[1] = IntUnchecked ->
                    [regs |-> set(r, reg, i.a[3],
                                IF Geq(stp, UintSub(u512_max, v))
                                THEN Some(Value(UintSub(stp,
                                                UintSub(u512_max, v))))
                                ELSE Some(Value(UintAdd(v, stp)))),
                     step |-> ExecStep_Next]
               [] OTHER -> [regs |-> r, step |-> Aborted]

\* Add and Mul reading an uninitialized slot as zero
AddMul_exec_MissingIsZero(i, r) ==
    LET reg == RegA(i.a[2])
        value1 == get(r, reg, i.a[3])
        value2 == get(r, reg, i.a[4])
        x == IF value1.some THEN Uint(value1.v, U1024Bytes)
             ELSE FromU64(0, U1024Bytes)
        y == IF value2.some THEN Uint(value2.v, U1024Bytes)
             ELSE FromU64(0, U1024Bytes)
    IN  IF ~(value1.some \/ value2.some)
        THEN [regs |-> r, step |-> ExecStep_Next]
        ELSE IF i.a[1] \in {IntChecked, IntUnchecked}
        THEN [regs |-> set(r, reg, 0,
                        Some(Value(IF i.op = "Add" THEN UintAdd(x, y)
                                   ELSE UintMul(x, y)))),
              step |-> ExecStep_Next]
        ELSE [regs |-> r, step |-> Aborted]

\* <ArithmeticOp as Instruction>::exec, the arms of Add and Mul
AddMul_exec(i, r) ==
    LET reg == RegA(i.a[2])
        value1 == get(r, reg, i.a[3])
        value2 == get(r, reg, i.a[4])
        x == Uint(value1.v, U1024Bytes)
        y == Uint(value2.v, U1024Bytes)
    IN  IF ~(value1.some /\ value2.some)
        THEN [regs |-> r, step |-> ExecStep_Next]
        ELSE IF i.a[1] \in {IntChecked, IntUnchecked}
        THEN [regs |-> set(r, reg, 0,
                        Some(Value(IF i.op = "Add" THEN UintAdd(x, y)
                                   ELSE UintMul(x, y)))),
              step |-> ExecStep_Next]
        ELSE [regs |-> r, step |-> Aborted]

\* <ArithmeticOp as Instruction>::exec
ArithmeticOp_exec(i, r, st) ==
    CASE i.op = "Neg" ->
            LET reg == RegA(i.a[1])
                slot == get(r, reg, i.a[2])
            IN  [regs |-> IF slot.some
                          THEN set(r, reg, i.a[2],
                                   Some(FlipByte(slot.v, i.a[1])))
                          ELSE r,
                 step |-> ExecStep_Next]
      [] i.op = "Inc" -> Inc_exec(i, r)
      [] i.op \in {"Add", "Mul"} -> AddMul_exec(i, r)
      [] i.op \in {"Sub", "Div", "Mod", "Abs"} ->
            [regs |-> r, step |-> ExecStep_Next]

\* <ArithmeticOp as Instruction>::len
ArithmeticOp_len(i) ==
    CASE i.op = "Neg" -> 2
      [] i.op = "Inc" -> 3
      [] i.op \in {"Add", "Sub", "Mul", "Div"} -> 3
      [] i.op = "Mod" -> 4
      [] i.op = "Abs" -> 2

\* <CmpOp as Instruction>::len
CmpOp_len(i) ==
    CASE i.op \in {"Gt", "Lt", "EqA", "EqR"} -> 3
      [] i.op \in {"Len", "Cnt"} -> 2
      [] i.op \in {"St2A", "A2St"} -> 1

\* <CmpOp as Instruction>::exec: todo!()
CmpOp_exec(i, r, st) == [regs |-> r, step |-> Aborted]

\* exec with a Fail that leaves st0 as it was
Instr_exec_FailKeepsStatus(i, r, st) ==
    CASE i.cat = "ControlFlow" ->
            IF i.op = "Fail" THEN [regs |-> r, step |-> ExecStep_Stop]
            ELSE ControlFlowOp_exec(i, r, st)
      [] i.cat = "Put" -> PutOp_exec(i, r, st)
      [] i.cat = "Move" -> MoveOp_exec(i, r, st)
      [] i.cat = "Cmp" -> CmpOp_exec(i, r, st)
      [] i.cat = "Arithmetic" -> ArithmeticOp_exec(i, r, st)
      [] i.cat = "Nop" -> [regs |-> r, step |-> ExecStep_Next]

\* exec with a Jif that jumps whatever st0 is
Instr_exec_JifAlways(i, r, st) ==
    CASE i.cat = "ControlFlow" ->
            IF i.op = "Jif" THEN MapOrStop(jmp(r), ExecStep_Jump(i.a[1]))
            ELSE ControlFlowOp_exec(i, r, st)
      [] i.cat = "Put" -> PutOp_exec(i, r, st)
      [] i.cat = "Move" -> MoveOp_exec(i, r, st)
      [] i.cat = "Cmp" -> CmpOp_exec(i, r, st)
      [] i.cat = "Arithmetic" -> ArithmeticOp_exec(i, r, st)
      [] i.cat = "Nop" -> [regs |-> r, step |-> ExecStep_Next]

\* exec with a Ret that jumps to the popped offset within the current library
Instr_exec_RetJumps(i, r, st) ==
    CASE i.cat = "ControlFlow" ->
            IF i.op = "Ret"
            THEN LET m == ret(r) IN MapOrStop(m, ExecStep_Jump(m.site.pos))
            ELSE ControlFlowOp_exec(i, r, st)
      [] i.cat = "Put" -> PutOp_exec(i, r, st)
      [] i.cat = "Move" -> MoveOp_exec(i, r, st)
      [] i.cat = "Cmp" -> CmpOp_exec(i, r, st)
      [] i.cat = "Arithmetic" -> ArithmeticOp_exec(i, r, st)
      [] i.cat = "Nop" -> [regs |-> r, step |-> ExecStep_Next]

\* <Instr as Instruction>::exec
Instr_exec(i, r, st) ==
    CASE i.cat = "ControlFlow" -> ControlFlowOp_exec(i, r, st)
      [] i.cat = "Put" -> PutOp_exec(i, r, st)
      [] i.cat = "Move" -> MoveOp_exec(i, r, st)
      [] i.cat = "Cmp" -> CmpOp_exec(i, r, st)
      [] i.cat = "Arithmetic" -> ArithmeticOp_exec(i, r, st)
      [] i.cat = "Nop" -> [regs |-> r, step |-> ExecStep_Next]

\* <Instr as Instruction>::len, for the categories executed here
Instr_len(i) ==
    CASE i.cat = "ControlFlow" -> ControlFlowOp_len(i)
      [] i.cat = "Put" -> PutOp_len(i)
      [] i.cat = "Move" -> MoveOp_len(i)
      [] i.cat = "Cmp" -> CmpOp_len(i)
      [] i.cat = "Arithmetic" -> ArithmeticOp_len(i)
      [] i.cat = "Nop" -> 1

\* no program is running
NoExec ==
    /\ libs = <<>>
    /\ regs = Registers
    /\ site = NoSite
    /\ step = ExecStep_Stop
    /\ was = [regs |-> Registers, site |-> NoSite]

-----------------------------------------------------------------------------
(* Writing instructions into a fresh Blob and reading the first one back,
   and reading an instruction from a buffer that starts with any opcode *)

\* Blob::default().bytes.len()
BlobCap == 65535

\* The writer starts at byte 0, or behind WriteStart one-byte Fail
\* instructions (opcode 0), which leave the buffer zero
WriteStart == 3
RawLen == 40

Exts == {NopExt, HostExt}

InitCodec ==
    /\ ext \in Exts
    /\ \/ /\ pc = "write"
          /\ \E p \in {0, WriteStart} :
                cur = [CursorWith(ZeroBytes, BlobCap) EXCEPT !.byte_pos = p]
       \/ /\ pc = "raw"
          /\ \E b \in 0..U8Max : cur = CursorWith(AsBytes(<<b>>), RawLen)
    /\ prev = cur
    /\ last = [op |-> "none", n |-> 0]
    /\ res = OkRes
    /\ val = 0
    /\ nops = 0
    /\ instr = NoInstr
    /\ decoded = NoInstr
    /\ input = [len |-> 0, bytes |-> ZeroBytes]
    /\ lead = 0
    /\ code = <<>>
    /\ out = <<>>
    /\ blob = [len |-> 0, bytes |-> ZeroBytes]
    /\ NoExec

\* instr.write(&mut writer)
Write(i) ==
    /\ pc = "write"
    /\ nops = 0
    /\ LET Return(r) ==
               /\ cur' = r.c
               /\ res' = r.res
               /\ pc' = IF IsOk(r) THEN "write" ELSE "failed"
       IN  Return(write(cur, i))
    /\ prev' = cur
    /\ last' = [op |-> "write", n |-> byte_count(i)]
    /\ instr' = i
    /\ code' = Append(code, i)
    /\ nops' = nops + 1
    /\ UNCHANGED <<val, decoded, ext, input, libs, regs, site, step, was, lead, out, blob>>

\* Instr::read(&mut Cursor::with(bytes)) on the bytes just written
ReadBack ==
    /\ pc = "write"
    /\ nops = 1
    /\ prev.byte_pos = 0
    /\ LET Return(r) ==
               /\ cur' = r.c
               /\ res' = r.res
               /\ decoded' = IF IsOk(r) THEN r.val ELSE NoInstr
       IN  Return(read(CursorWith(cur.bytecode, cur.len), ext))
    /\ prev' = CursorWith(cur.bytecode, cur.len)
    /\ last' = [op |-> "read", n |-> 0]
    /\ pc' = "read"
    /\ UNCHANGED <<val, nops, instr, ext, input, libs, regs, site, step, was, lead, code, out, blob>>

\* Instr::read(&mut reader) on a buffer starting with an arbitrary opcode
ReadRaw ==
    /\ pc = "raw"
    /\ LET Return(r) ==
               /\ cur' = r.c
               /\ res' = r.res
               /\ decoded' = IF IsOk(r) THEN r.val ELSE NoInstr
       IN  Return(read(cur, ext))
    /\ prev' = cur
    /\ last' = [op |-> "read", n |-> 0]
    /\ pc' = "rawread"
    /\ UNCHANGED <<val, nops, instr, ext, input, libs, regs, site, step, was, lead, code, out, blob>>

NextCodec == (\E i \in Instrs : Write(i)) \/ ReadBack \/ ReadRaw

SpecCodec == InitCodec /\ [][NextCodec]_vars

-----------------------------------------------------------------------------
(* Claims about the codec *)

\* the opcode byte a reader finds at the start of its buffer
Opcode(c) == Get(c.bytecode, c.byte_pos)

\* an instruction is well-formed when the value it carries is exactly as wide
\* as its register, or its register has no static width
WellFormed(i) ==
    i.op \in {"PutA", "PutIfA", "PutR", "PutIfR"}
        => RegBits(PutReg(i)) \in {NoBits, 8 * i.value.len}

\* C1: every well-formed instruction of an implemented category that was
\* written into a zeroed buffer is read back, from the start of the buffer,
\* as an equal instruction.
C1_RoundTrip ==
    (pc = "read" /\ instr.cat \in Implemented /\ WellFormed(instr))
        => (res.kind = "Ok" /\ decoded = instr)

\* C3: a successful write of an instruction at a byte-aligned cursor
\* advances byte_pos by exactly byte_count of the instruction.
C3_WriteAdvance ==
    (pc = "write" /\ nops = 1 /\ instr.cat \in Implemented)
        => (cur.bit_pos = 0 /\ cur.byte_pos = prev.byte_pos + byte_count(instr))

\* C4: Nop is the single byte 0xFF: Write puts 0xFF, byte_count is 1, and
\* the byte 0xFF that no extension claims is read as Instr::Nop.
C4_NopByte ==
    /\ byte_count(Nop) = 1
    /\ (pc = "write" /\ nops = 1 /\ instr = Nop)
          => Get(cur.bytecode, prev.byte_pos) = INSTR_NOP
    /\ (pc = "rawread" /\ Opcode(prev) = INSTR_NOP
          /\ ~Contains(ext.range, INSTR_NOP))
          => (res.kind = "Ok" /\ decoded = Nop)

\* the opcode belongs to no core range, to no extension range, and is not 0xFF
Unassigned(b, e) ==
    /\ \A k \in 1..10 : ~Contains(Arms(e)[k].range, b)
    /\ ~Contains(e.range, b)
    /\ b # INSTR_NOP

\* C6: reading an unassigned opcode returns a decode error: the call neither
\* aborts nor returns an instruction.
C6_UnsupportedIsError ==
    (pc = "rawread" /\ Unassigned(Opcode(prev), ext))
        => res.kind \notin {"Ok", "Panic"}

Disjoint(r1, r2) == r1.hi < r2.lo \/ r2.hi < r1.lo

\* Seq reversed
RECURSIVE Reverse(_)
Reverse(sq) == IF sq = <<>> THEN <<>> ELSE Append(Reverse(Tail(sq)), Head(sq))

\* the range of the category of a core instruction
CatRange(i, e) ==
    (CHOOSE arm \in {Arms(e)[k] : k \in 1..12} : arm.cat = i.cat).range

-----------------------------------------------------------------------------
(* The cursor primitives, issued one after another on a reader or a writer.

   A cursor over a zeroed buffer at any byte position p, byte-aligned and
   not at eof, is the state Cursor::with reaches by one write_slice of p
   zero bytes (a writer) or by one read_slice whose length prefix says so
   (a reader); the specification starts there to reach the end of the
   addressable range without 65,535 single steps. *)

MaxOps == 2

\* buffer lengths: a Blob, and every byte the cursor can address
BufLens == {BlobCap, U16Max + 1}

StartPositions == {0, U16Max - 33, U16Max - 32, U16Max - 31, U16Max - 3,
                   U16Max - 2, U16Max - 1, U16Max}

\* what a reader finds from position p on: zeros, or a length of 2 and data
Pattern(p, len) ==
    [j \in {q \in {p, p + 2, p + 3} : q < len} |->
        IF j = p THEN 2 ELSE 160 + (j - p)]

InitCursor ==
    /\ \E len \in BufLens, p \in StartPositions :
          \/ /\ pc = "writer"
             /\ cur = [CursorWith(ZeroBytes, len) EXCEPT !.byte_pos = p]
          \/ /\ pc = "reader"
             /\ \E data \in {ZeroBytes, Pattern(p, len)} :
                   cur = [CursorWith(data, len) EXCEPT !.byte_pos = p]
    /\ prev = cur
    /\ last = [op |-> "none", n |-> 0]
    /\ res = OkRes
    /\ val = 0
    /\ nops = 0
    /\ instr = NoInstr
    /\ decoded = NoInstr
    /\ ext = NopExt
    /\ input = [len |-> 0, bytes |-> ZeroBytes]
    /\ lead = 0
    /\ code = <<>>
    /\ out = <<>>
    /\ blob = [len |-> 0, bytes |-> ZeroBytes]
    /\ NoExec

\* the caller issues `name` (asking for n bits or bytes), which returns r
Issue(mode, name, n, r) ==
    /\ pc = mode
    /\ nops < MaxOps
    /\ prev' = cur
    /\ cur' = r.c
    /\ res' = r.res
    /\ val' = IF IsOk(r) THEN r.val ELSE 0
    /\ last' = [op |-> name, n |-> n]
    /\ pc' = IF r.res.kind = "Panic" THEN "aborted" ELSE mode
    /\ nops' = nops + 1
    /\ UNCHANGED <<instr, decoded, ext, input, libs, regs, site, step, was, lead, code, out, blob>>

PeekU8 == Issue("reader", "peek_u8", 0, peek_u8(cur))
ReadBits(n) == Issue("reader", "read_bits", n, read_bits(cur, n))
ReadU8 == Issue("reader", "read_u8", 1, read_u8(cur))
ReadU16 == Issue("reader", "read_u16", 2, read_u16(cur))
ReadBytes32 == Issue("reader", "read_bytes32", 32, read_bytes32(cur))
ReadSlice == Issue("reader", "read_slice", 0, read_slice(cur))
ReadValue(reg) ==
    Issue("reader", "read_value", RegBits(reg) \div 8, read_value(cur, reg))

WriteBits(n, d) == Issue("writer", "write_bits", n, write_uN(cur, n, d))
WriteU8(d) == Issue("writer", "write_u8", 1, write_u8(cur, d))
WriteU16(d) == Issue("writer", "write_u16", 2, write_u16(cur, d))
WriteBytes32(d) == Issue("writer", "write_bytes32", 32, write_bytes32(cur, d))
WriteSlice(d) == Issue("writer", "write_slice", Len(d), write_slice(cur, d))
WriteValue(reg, v) ==
    Issue("writer", "write_value", RegBits(reg) \div 8,
          write_value(cur, reg, v))

ValueRegs == {RegA(AP), RegA(1), RegA(2), RegR(0)}

NextCursor ==
    \/ PeekU8
    \/ \E n \in 1..7 : ReadBits(n)
    \/ ReadU8
    \/ ReadU16
    \/ ReadBytes32
    \/ ReadSlice
    \/ \E reg \in ValueRegs : ReadValue(reg)
    \/ \E n \in 1..7 : \E d \in {1, Pow2(n) - 1} : WriteBits(n, d)
    \/ \E d \in {0, 165} : WriteU8(d)
    \/ \E d \in {0, 258} : WriteU16(d)
    \/ WriteBytes32(Hash1)
    \/ \E d \in {<<>>, <<7>>, <<7, 8>>} : WriteSlice(d)
    \/ \E rv \in ValuesA : WriteValue(RegA(rv[1]), rv[2])
    \/ \E rv \in ValuesR : WriteValue(RegR(rv[1]), rv[2])

SpecCursor == InitCursor /\ [][NextCursor]_vars

(* Claims about the cursor *)

\* the last operation advanced the cursor by exactly one byte: a byte-aligned
\* read_u8 or write_u8, or a sub-byte access that completed the current byte
OneByteStep ==
    \/ last.op \in {"read_u8", "write_u8"} /\ prev.bit_pos = 0
    \/ last.op \in {"read_bits", "write_bits"} /\ prev.bit_pos + last.n = 8

\* C9: a one-byte advance of a cursor that stands on byte 65535 of its
\* buffer (and is not yet at eof) returns Ok, sets eof and leaves byte_pos
\* at 65535; it does not return OutOfBoundaries.
C9_StepPastMax ==
    (OneByteStep /\ prev.byte_pos = U16Max /\ ~prev.eof
        /\ prev.byte_pos < prev.len)
        => (res.kind = "Ok" /\ cur.eof /\ cur.byte_pos = U16Max)

\* a sub-byte read that completes byte 65535 has set eof
C9_Witness ==
    /\ last.op = "read_bits" /\ prev.bit_pos > 0 /\ prev.bit_pos + last.n = 8
    /\ prev.byte_pos = U16Max /\ ~prev.eof
    /\ cur.eof

\* C10: OutOfBoundaries(pos) is returned only when the position the advance
\* would produce exceeds u16::MAX by more than one; an advance that ends
\* right behind byte 65535 (an exact fill) does not return it.
C10_OutOfBoundariesOnlyBeyond ==
    res.kind = "OutOfBoundaries" => res.pos > U16Max + 1

ReadOps ==
    {"peek_u8", "read_bits", "read_u8", "read_u16", "read_bytes32",
     "read_slice", "read_value"}

\* C11: once eof is set, every read primitive (peek_u8, the sub-byte reads,
\* read_u8, read_u16, read_bytes32, read_slice, read_value) returns Eof and
\* leaves byte_pos, bit_pos and eof as they were; peek_u8 never changes the
\* cursor, whatever it returns.
C11_EofReads ==
    /\ (last.op \in ReadOps /\ prev.eof)
          => /\ res = EofRes
             /\ cur.byte_pos = prev.byte_pos
             /\ cur.bit_pos = prev.bit_pos
             /\ cur.eof = prev.eof
    /\ last.op = "peek_u8" => cur = prev

\* a peek issued on a cursor whose eof flag an earlier read has set
C11_Witness ==
    /\ last.op = "peek_u8" /\ prev.eof /\ res = EofRes /\ nops = 2

SubByteOps == {"read_bits", "write_bits"}

\* C12: a sub-byte read or write of N bits issued when bit_pos + N > 8 fails
\* its assertion: it returns no value and the cursor does not advance across
\* the byte boundary.
C12_NoCrossing ==
    (last.op \in SubByteOps /\ prev.bit_pos + last.n > 8)
        => /\ res.kind = "Panic"
           /\ val = 0
           /\ cur.byte_pos = prev.byte_pos
           /\ cur.bit_pos = prev.bit_pos

\* a sub-byte write that would cross the boundary of a byte inside the buffer
C12_Witness ==
    /\ last.op = "write_bits" /\ prev.bit_pos + last.n > 8
    /\ prev.byte_pos < prev.len /\ ~prev.eof
    /\ res.kind = "Panic"

-----------------------------------------------------------------------------
(* The assembler entry points: disassemble(bytecode), and compile(code) on
   the instructions disassemble returned or on a program of its own.

   A program is `lead` one-byte Fail instructions (opcode 0) followed by
   `code`; compile starts behind the lead, where the writer stands at byte
   `lead` of the still zeroed Blob. *)

MaxInputLen == 3
MaxOut == 40
MaxProgLen == 2

ArgBytes == {0, 1, 165, 255}
FirstBytes == 0..(INSTR_ED_NEG + 1) \cup {128, 191, INSTR_NOP}

RECURSIVE Strings(_, _)
Strings(alphabet, n) ==
    IF n = 0 THEN {<<>>}
    ELSE LET shorter == Strings(alphabet, n - 1)
         IN  shorter \cup {Append(s, a) : s \in shorter, a \in alphabet}

ShortInputs ==
    {<<>>} \cup {<<b>> \o s : b \in FirstBytes,
                             s \in Strings(ArgBytes, MaxInputLen - 1)}

LongInputs ==
    { <<INSTR_CALL, 3, 0>> \o Hash1,
      <<INSTR_EXEC, 1, 2>> \o Hash1 \o <<INSTR_RET>>,
      <<INSTR_PUTA, 0, 1, 0, 165>>,
      <<INSTR_PUTIFA, 224, 2, 0, 7, 8, INSTR_SUCC>>,
      <<INSTR_PUTR, 1>> \o Hash1 \o Hash1 }

Bytes(s) == [len |-> Len(s), bytes |-> AsBytes(s)]

\* the inputs of disassemble, one of them a byte longer than it accepts
Inputs ==
    {Bytes(s) : s \in ShortInputs \cup LongInputs}
    \cup {[len |-> U16Max + 1, bytes |-> ZeroBytes]}

ProgramInstrs ==
    {i \in Instrs : i.op \in {"Fail", "Jmp", "Call", "PutA", "Neg"}}

RECURSIVE Programs(_)
Programs(n) ==
    IF n = 0 THEN {<<>>}
    ELSE LET shorter == Programs(n - 1)
         IN  shorter \cup {Append(s, i) : s \in shorter, i \in ProgramInstrs}

Leads == {0, BlobCap - 3, BlobCap - 1, BlobCap}

InitAsm ==
    /\ \/ /\ pc = "dis_start"
          /\ ext \in Exts
          /\ input \in Inputs
          /\ lead = 0
          /\ code = <<>>
          /\ cur = CursorWith(ZeroBytes, 0)
          /\ last = [op |-> "disassemble", n |-> 0]
       \/ /\ pc = "comp_loop"
          /\ ext = NopExt
          /\ input = Bytes(<<>>)
          /\ lead \in Leads
          /\ code \in Programs(MaxProgLen)
          /\ cur = [CursorWith(ZeroBytes, BlobCap) EXCEPT !.byte_pos = lead]
          /\ last = [op |-> "compile", n |-> 0]
    /\ prev = cur
    /\ res = OkRes
    /\ val = 0
    /\ nops = 0
    /\ instr = NoInstr
    /\ decoded = NoInstr
    /\ out = <<>>
    /\ blob = [len |-> 0, bytes |-> ZeroBytes]
    /\ NoExec

\* disassemble, up to the loop
DisStart ==
    /\ pc = "dis_start"
    /\ IF input.len > U16Max
       THEN /\ res' = OutOfBoundaries(input.len)
            /\ pc' = "dis_err"
            /\ cur' = cur
       ELSE /\ res' = OkRes
            /\ pc' = "dis_loop"
            /\ cur' = CursorWith(input.bytes, input.len)
    /\ UNCHANGED <<prev, last, val, nops, instr, decoded, ext, input, libs, regs, site, step, was, lead,
                   code, out, blob>>

\* one turn of the loop: code.push(Instr::read(&mut reader)?)
DisRead ==
    /\ pc = "dis_loop"
    /\ ~is_end(cur)
    /\ Len(out) < MaxOut
    /\ LET Return(r) ==
               /\ cur' = r.c
               /\ res' = r.res
               /\ decoded' = IF IsOk(r) THEN r.val ELSE NoInstr
               /\ out' = IF IsOk(r) THEN Append(out, r.val) ELSE out
               /\ pc' = CASE IsOk(r) -> "dis_loop"
                          [] r.res.kind = "Panic" -> "dis_abort"
                          [] OTHER -> "dis_err"
       IN  Return(read(cur, ext))
    /\ prev' = cur
    /\ UNCHANGED <<last, val, nops, instr, ext, input, libs, regs, site, step, was, lead, code, blob>>

\* the loop ends: Ok(code)
DisEnd ==
    /\ pc = "dis_loop"
    /\ is_end(cur)
    /\ pc' = "dis_ok"
    /\ res' = OkRes
    /\ UNCHANGED <<cur, prev, last, val, nops, instr, decoded, ext, input, libs, regs, site, step, was,
                   lead, code, out, blob>>

\* compile(code) on what disassemble returned, up to the loop
Recompile ==
    /\ pc = "dis_ok"
    /\ code' = out
    /\ cur' = CursorWith(ZeroBytes, BlobCap)
    /\ prev' = CursorWith(ZeroBytes, BlobCap)
    /\ pc' = "comp_loop"
    /\ UNCHANGED <<last, res, val, nops, instr, decoded, ext, input, libs, regs, site, step, was, lead,
                   out, blob>>

\* one turn of the loop: instr.write(&mut writer)?
CompWrite ==
    /\ pc = "comp_loop"
    /\ nops < Len(code)
    /\ LET Return(r) ==
               /\ cur' = r.c
               /\ res' = r.res
               /\ pc' = CASE IsOk(r) -> "comp_loop"
                          [] r.res.kind = "Panic" -> "comp_abort"
                          [] OTHER -> "comp_err"
       IN  Return(write(cur, code[nops + 1]))
    /\ prev' = cur
    /\ instr' = code[nops + 1]
    /\ nops' = nops + 1
    /\ UNCHANGED <<last, val, decoded, ext, input, libs, regs, site, step, was, lead, code, out, blob>>

\* the loop ends: bytecode.len = writer.byte_pos; Ok(bytecode)
CompEnd ==
    /\ pc = "comp_loop"
    /\ nops = Len(code)
    /\ blob' = [len |-> cur.byte_pos, bytes |-> cur.bytecode]
    /\ pc' = "comp_ok"
    /\ res' = OkRes
    /\ UNCHANGED <<cur, prev, last, val, nops, instr, decoded, ext, input, libs, regs, site, step, was,
                   lead, code, out>>

NextAsm ==
    \/ DisStart
    \/ DisRead
    \/ DisEnd
    \/ Recompile
    \/ CompWrite
    \/ CompEnd

SpecAsm == InitAsm /\ [][NextAsm]_vars

(* Claims about the assembler entry points *)

CompDone == {"comp_ok", "comp_err", "comp_abort"}

\* the first n bytes of a buffer
Active(b) == Slice(b.bytes, 0, b.len)

\* C2: when disassemble accepts a byte string of at most 65,535 bytes,
\* compile of the instructions it returned succeeds with a blob as long as
\* the byte string and whose active bytes are that byte string.
C2_Recompile ==
    (pc \in CompDone /\ last.op = "disassemble")
        => (pc = "comp_ok" /\ blob.len = input.len
              /\ Active(blob) = Active(input))

\* several instructions, an Exec with its library site among them, were
\* decoded and compiled again
C2_Witness ==
    /\ pc = "comp_ok" /\ last.op = "disassemble"
    /\ Len(out) >= 2
    /\ \E k \in 1..Len(out) : out[k].op = "Exec"
    /\ Active(blob) = Active(input)

\* C5: disassemble of a byte slice of at most 65,535 bytes does not abort;
\* it ends with the instructions or with a DecodeError (a cursor error when
\* the slice ends inside an instruction's arguments).
C5_NeverAborts ==
    (last.op = "disassemble" /\ input.len <= U16Max) => pc # "dis_abort"

RECURSIVE SumByteCount(_)
SumByteCount(s) ==
    IF s = <<>> THEN 0 ELSE byte_count(s[1]) + SumByteCount(Tail(s))

\* C7: compile returns TooManyInstructions when the program has more than
\* 2^16 instructions or serializes to more than 65,535 bytes, and otherwise
\* returns a blob whose length is the sum of byte_count over the program.
C7_CompileResult ==
    (pc \in CompDone /\ last.op = "compile")
        => IF lead + Len(code) > U16Max + 1
              \/ lead + SumByteCount(code) > U16Max
           THEN pc = "comp_err" /\ res.kind = "TooManyInstructions"
           ELSE pc = "comp_ok" /\ blob.len = lead + SumByteCount(code)

-----------------------------------------------------------------------------
(* Running a program. The interpreter loop is not among the sources; it
   follows the specification: take the instruction at the current position,
   exec it against the register file, handing it the current code position
   (as the documentation of Instruction::exec says), and move as the
   returned ExecStep tells.

   A program is two libraries. The register file a run starts from is the
   one a run has after earlier instructions: any status, a cycle count that
   is fresh or close to its limit, a call stack that is empty, shallow or
   close to full (every push has counted a cycle, so cy0 >= depth). *)

MaxSteps == 4
MaxLibLen == 2

LibA == Hash0
LibB == Hash1

ExecInstrs ==
    {I("ControlFlow", op, <<>>) : op \in {"Fail", "Succ", "Ret"}}
    \cup {I("ControlFlow", "Jmp", <<0>>)}
    \cup {I("ControlFlow", op, <<3>>) : op \in {"Jif", "Routine"}}
    \cup {WithSite("ControlFlow", op, LibSite(0, LibB)) :
            op \in {"Call", "Exec"}}
    \cup {Nop, I("Cmp", "St2A", <<>>)}

LibBCode == <<I("ControlFlow", "Ret", <<>>), I("ControlFlow", "Succ", <<>>)>>

ExecPrograms ==
    {[h \in {LibA, LibB} |-> IF h = LibA THEN body ELSE LibBCode] :
        body \in UNION {[1..n -> ExecInstrs] : n \in 1..MaxLibLen}}

\* [Routine(ofs=3), Fail, Succ, Ret]
ScenarioF ==
    <<I("ControlFlow", "Routine", <<3>>), I("ControlFlow", "Fail", <<>>),
      I("ControlFlow", "Succ", <<>>), I("ControlFlow", "Ret", <<>>)>>

\* the programs that are run from a fresh register file only
Scenarios ==
    {[h \in {LibA, LibB} |-> IF h = LibA THEN body ELSE LibBCode] :
        body \in {ScenarioF}}

\* instructions on the registers a8 (tag 1), a32 (tag 3), a512 (tag 7) and
\* r128 (tag 0), slots 0 and 1
DataInstrs ==
    {WithValue("Put", "PutA", <<1, 0>>, Value(<<5>>)),
     WithValue("Put", "PutA", <<1, 1>>, Value(<<3, 1>>)),
     WithValue("Put", "PutIfA", <<1, 0>>, Value(<<7>>)),
     WithValue("Put", "PutIfR", <<0, 0>>, Value(<<9>>))}
    \cup {I("Put", op, <<1, 0>>) : op \in {"ZeroA", "ClA"}}
    \cup {I("Put", op, <<0, 0>>) : op \in {"ZeroR", "ClR"}}
    \cup {I("Move", "MovA", <<3, 0, 1, 1>>), I("Move", "SwpAR", <<1, 0, 0, 0>>),
          I("Move", "AMov", <<1, 3, 0>>), I("Move", "SwpA", <<1, 0, 1, 1>>)}
    \cup {I("Arithmetic", "Neg", <<1, 0>>), I("Arithmetic", "Neg", <<3, 0>>)}
    \cup {I("Arithmetic", "Inc", <<ar, 1, 0, 1>>) :
            ar \in {IntChecked, IntUnchecked, IntCheckedSigned}}
    \cup {I("Arithmetic", "Inc", <<IntUnchecked, 7, 0, 1>>),
          I("Arithmetic", "Add", <<IntChecked, 1, 0, 1>>),
          I("Arithmetic", "Mul", <<IntUnchecked, 1, 0, 1>>),
          I("Arithmetic", "Sub", <<IntUnchecked, 1, 0, 1>>)}

DataPrograms ==
    {[h \in {LibA, LibB} |-> IF h = LibA THEN body ELSE LibBCode] :
        body \in UNION {[1..n -> DataInstrs] : n \in 1..MaxLibLen}}

\* a register file with a8[0] = 0xFF, a8[1] = 0x10, a32[0] = 0x04030201,
\* a512[0] = 2^512 - 1 and r128[0] = 1
Loaded ==
    set(set(set(set(set(Registers,
        RegA(1), 0, Some(Value(<<U8Max>>))),
        RegA(1), 1, Some(Value(<<16>>))),
        RegA(3), 0, Some(Value(<<1, 2, 3, 4>>))),
        RegA(7), 0, Some(Value(UintMax(U512Bytes)))),
        RegR(0), 0, Some(Value(<<1>>)))

DataRegs == {Registers, Loaded}

\* the call stack after d calls, alternating between two return sites
StackOf(d) ==
    [j \in 1..d |-> IF j % 2 = 1 THEN LibSite(1, LibB) ELSE LibSite(0, LibA)]

Depths == {0, 1, 2, CallStackDepth - 1, CallStackDepth}

EntryRegs ==
    UNION {{[Registers EXCEPT !.st0 = s, !.cy0 = c, !.cp0 = d,
                              !.cs0 = StackOf(d)] :
                s \in BOOLEAN, c \in {d, U16Max - 1, U16Max}} :
           d \in Depths}

\* offset of the k-th instruction of a library
RECURSIVE OffsetOf(_, _)
OffsetOf(body, k) ==
    IF k = 1 THEN 0 ELSE OffsetOf(body, k - 1) + Instr_len(body[k - 1])

\* the instruction that starts at a site, NoInstr where none does
InstrAt(ls, st) ==
    IF st.lib \notin DOMAIN ls THEN NoInstr
    ELSE LET body == ls[st.lib]
             hits == {k \in 1..Len(body) : OffsetOf(body, k) = st.pos}
         IN  IF hits = {} THEN NoInstr ELSE body[CHOOSE k \in hits : TRUE]

\* the position after a step
Follow(st, i, e) ==
    CASE e.kind = "Next" -> LibSite(st.pos + Instr_len(i), st.lib)
      [] e.kind = "Jump" -> LibSite(e.offset, st.lib)
      [] e.kind = "Call" -> e.site
      [] OTHER -> st

InitExec ==
    /\ \/ libs \in ExecPrograms /\ regs \in EntryRegs
       \/ libs \in Scenarios /\ regs = Registers
       \/ libs \in DataPrograms /\ regs \in DataRegs
    /\ site = LibSite(0, LibA)
    /\ step = ExecStep_Next
    /\ was = [regs |-> regs, site |-> site]
    /\ pc = "running"
    /\ nops = 0
    /\ instr = NoInstr
    /\ cur = CursorWith(ZeroBytes, 0)
    /\ prev = cur
    /\ last = [op |-> "none", n |-> 0]
    /\ res = OkRes
    /\ val = 0
    /\ decoded = NoInstr
    /\ ext = NopExt
    /\ input = [len |-> 0, bytes |-> ZeroBytes]
    /\ lead = 0
    /\ code = <<>>
    /\ out = <<>>
    /\ blob = [len |-> 0, bytes |-> ZeroBytes]

\* one turn of the loop on an instruction
RunInstr ==
    /\ pc = "running"
    /\ InstrAt(libs, site) # NoInstr
    /\ LET i == InstrAt(libs, site)
           Return(r) ==
               /\ regs' = r.regs
               /\ step' = r.step
               /\ site' = Follow(site, i, r.step)
               /\ pc' = CASE r.step.kind = "Stop" -> "stopped"
                           [] r.step.kind = "Panic" -> "aborted"
                           [] OTHER -> "running"
       IN  /\ Return(Instr_exec(i, regs, site))
           /\ instr' = i
    /\ was' = [regs |-> regs, site |-> site]
    /\ UNCHANGED <<cur, prev, last, res, val, decoded, ext, input, lead, code,
                   out, blob, libs>>

\* no instruction at the position: the run ends with st0 = false
RunEnd ==
    /\ pc = "running"
    /\ InstrAt(libs, site) = NoInstr
    /\ regs' = [regs EXCEPT !.st0 = FALSE]
    /\ step' = ExecStep_Stop
    /\ pc' = "stopped"
    /\ instr' = NoInstr
    /\ was' = [regs |-> regs, site |-> site]
    /\ UNCHANGED <<cur, prev, last, res, val, decoded, ext, input, lead, code,
                   out, blob, libs, site>>

\* the first MaxSteps turns of a run
ExecInstr == nops < MaxSteps /\ RunInstr /\ nops' = nops + 1

ExecEnd == nops < MaxSteps /\ RunEnd /\ nops' = nops + 1

NextExec == ExecInstr \/ ExecEnd

SpecExec == InitExec /\ [][NextExec]_vars

-----------------------------------------------------------------------------
(* Claims about the control-flow instructions *)

Executed(ops) == instr.cat = "ControlFlow" /\ instr.op \in ops

SameCounters ==
    /\ regs.cy0 = was.regs.cy0
    /\ regs.cp0 = was.regs.cp0
    /\ regs.cs0 = was.regs.cs0

\* C13: Succ sets st0 to true and returns Stop, Fail sets st0 to false and
\* returns Stop, whatever the registers were before; neither changes cy0, cp0
\* or cs0; the program [Succ] ends with st0 = true, [Fail] with st0 = false.
C13_SuccFail ==
    /\ Executed({"Succ"})
          => regs.st0 /\ step = ExecStep_Stop /\ pc = "stopped" /\ SameCounters
    /\ Executed({"Fail"})
          => ~regs.st0 /\ step = ExecStep_Stop /\ pc = "stopped"
             /\ SameCounters
    /\ (nops >= 1 /\ libs[LibA] = <<I("ControlFlow", "Succ", <<>>)>>)
          => pc = "stopped" /\ regs.st0
    /\ (nops >= 1 /\ libs[LibA] = <<I("ControlFlow", "Fail", <<>>)>>)
          => pc = "stopped" /\ ~regs.st0

\* Fail has run on registers whose st0 was true and whose stack was not empty
C13_Witness ==
    /\ Executed({"Fail"}) /\ was.regs.st0 /\ was.regs.cs0 # <<>>
    /\ ~regs.st0 /\ pc = "stopped"

Jmp0 == I("ControlFlow", "Jmp", <<0>>)

C16_CycleCounted ==
    (Executed({"Jmp", "Jif", "Routine", "Call"})
        /\ was.regs.cy0 < U16Max /\ step.kind # "Stop")
        => regs.cy0 = was.regs.cy0 + 1

\* C17: cp0 is changed only by Call, which increments it, and by Ret, which
\* decrements it; Jmp, Jif, Routine, Exec, Succ, Fail and every instruction
\* that is not a control-flow instruction leave cp0 unchanged.
C17_DepthCounter ==
    /\ (Executed({"Call"}) /\ step.kind # "Stop")
          => regs.cp0 = was.regs.cp0 + 1
    /\ (Executed({"Ret"}) /\ step.kind # "Stop")
          => regs.cp0 = was.regs.cp0 - 1
    /\ (instr # NoInstr /\ ~Executed({"Call", "Ret"}))
          => regs.cp0 = was.regs.cp0

\* C18: Exec(site) returns Call(site) and leaves cy0, cp0 and cs0 unchanged.
C18_ExecKeepsCounters ==
    Executed({"Exec"}) => step = ExecStep_Call(instr.site) /\ SameCounters

Top(stack) == stack[Len(stack)]

\* C19: Routine and Call push onto cs0 the site of the instruction that
\* follows them in the calling code: a Routine at pc pushes pc + 3 of the
\* current library, a Call pushes the caller's library with the offset behind
\* the 35-byte Call; so the Ret that matches a Call(target) resumes in the
\* caller right behind the Call and not at target.
C19_ReturnSite ==
    /\ (Executed({"Routine"}) /\ step.kind = "Jump")
          => Top(regs.cs0) = LibSite(was.site.pos + 3, was.site.lib)
    /\ (Executed({"Call"}) /\ step.kind = "Call")
          => Top(regs.cs0) = LibSite(was.site.pos + 35, was.site.lib)
    /\ (nops = 2 /\ Executed({"Ret"}) /\ was.site = LibSite(0, LibB)
            /\ libs[LibA][1] = WithSite("ControlFlow", "Call", LibSite(0, LibB)))
          => site = LibSite(35, LibA)

\* C20: Ret pops the most recently pushed site from cs0 and the run continues
\* there, last in first out over any nesting; it leaves cy0 unchanged; on an
\* empty cs0 it returns Stop and cs0 stays empty.
C20_Ret ==
    Executed({"Ret"})
        => /\ regs.cy0 = was.regs.cy0
           /\ was.regs.cs0 # <<>>
                 => /\ step = ExecStep_Call(Top(was.regs.cs0))
                    /\ site = Top(was.regs.cs0)
                    /\ regs.cs0 = SubSeq(was.regs.cs0, 1, Len(was.regs.cs0) - 1)
           /\ was.regs.cs0 = <<>>
                 => /\ step = ExecStep_Stop /\ pc = "stopped"
                    /\ regs.cs0 = <<>>

\* a Routine and, nested in it, a Call have pushed their sites, and the
\* second of two Rets has popped the site the Routine pushed
C20_Witness ==
    /\ nops = 4 /\ Executed({"Ret"})
    /\ libs[LibA][1].op = "Routine" /\ libs[LibA][2].op = "Call"
    /\ Len(libs[LibA]) = 2
    /\ was.site.lib = LibB /\ site = LibSite(0, LibA)
    /\ Len(regs.cs0) = Len(was.regs.cs0) - 1

\* C21 as claimed: the program [Routine(ofs=3), Fail, Succ, Ret] run from
\* offset 0 with a fresh register file ends with st0 = true and with the
\* site it pushed on cs0 popped again.
C21_AsClaimed ==
    (libs[LibA] = ScenarioF /\ pc = "stopped")
        => regs.st0 /\ regs.cs0 = <<>>

\* C21: the program [Routine(ofs=3), Fail, Succ, Ret] run from offset 0 with
\* a fresh register file pushes one site on cs0 and jumps to offset 3, which
\* is where Fail stands behind the three bytes of the Routine; it ends there
\* with st0 = false, the site still on cs0, Succ and Ret never executed.
C21_ScenarioF ==
    libs[LibA] = ScenarioF
        => /\ nops <= 2
           /\ nops = 0 => pc = "running" /\ regs = Registers
           /\ nops = 1
                 => /\ Executed({"Routine"}) /\ pc = "running"
                    /\ site = LibSite(3, LibA) /\ Len(regs.cs0) = 1
           /\ nops = 2
                 => /\ Executed({"Fail"}) /\ was.site = LibSite(3, LibA)
                    /\ pc = "stopped" /\ ~regs.st0 /\ Len(regs.cs0) = 1

\* the run of the program has ended on the Fail at offset 3
C21_Witness ==
    /\ libs[LibA] = ScenarioF /\ nops = 2 /\ pc = "stopped"
    /\ Executed({"Fail"}) /\ ~regs.st0

\* the last instruction executed is one of these, of the category cat
Ran(cat, ops) == instr.cat = cat /\ instr.op \in ops

\* the register file without the slot idx of reg
Without(r, reg, idx) == set(r, reg, idx, None)

\* the slot a Put instruction addresses, before and after it ran
PutBefore == get(was.regs, PutReg(instr), instr.a[2])
PutAfter == get(regs, PutReg(instr), instr.a[2])

AllZero(v) == \A k \in 1..v.len : v.bytes[k] = 0

\* C23: after ZeroA or ZeroR the slot reads as a value whose bytes are all
\* zero; after ClA or ClR the slot reads as absent, whatever it held
C23_ZeroCl ==
    /\ Ran("Put", {"ZeroA", "ZeroR"}) => PutAfter.some /\ AllZero(PutAfter.v)
    /\ Ran("Put", {"ClA", "ClR"}) => PutAfter = None

C23_Witness ==
    /\ Ran("Put", {"ClA", "ClR"})
    /\ PutBefore.some
    /\ PutAfter = None

\* the A register and the two slots of an Add or a Mul
ArReg == RegA(instr.a[2])
Src1 == get(was.regs, ArReg, instr.a[3])
Src2 == get(was.regs, ArReg, instr.a[4])

\* Add or Mul ran in an unsigned integer mode with both operands initialized
AddMulRan ==
    /\ Ran("Arithmetic", {"Add", "Mul"})
    /\ instr.a[1] \in {IntChecked, IntUnchecked}
    /\ Src1.some /\ Src2.some

\* C24: Add and Mul on two initialized operands write their result to the
\* slot src2 and to no other slot; src1 keeps its value
C24_ResultInSrc2 ==
    AddMulRan =>
        /\ get(regs, ArReg, instr.a[3]) = Src1
        /\ Without(regs, ArReg, instr.a[4])
            = Without(was.regs, ArReg, instr.a[4])

\* the slot an Inc addresses, before and after it ran
IncBefore == get(was.regs, ArReg, instr.a[3])
IncAfter == get(regs, ArReg, instr.a[3])

\* the bytes of a value at the width of its register are all 0xFF
AllOnes(v, reg) ==
    \A k \in 1..(RegBits(reg) \div 8) : k <= v.len /\ v.bytes[k] = U8Max

\* C25: under IntChecked{signed: false} an Inc by a step above zero of a
\* register holding the largest value of its width stops the program
C25_CheckedStops ==
    (/\ Ran("Arithmetic", {"Inc"})
     /\ instr.a[1] = IntChecked
     /\ instr.a[4] > 0
     /\ IncBefore.some
     /\ AllOnes(IncBefore.v, ArReg)) => step = ExecStep_Stop /\ pc = "stopped"

\* the value v + 1 at the byte width n, wrapping; a carry out of the last
\* byte is dropped
PlusOne(v, n) ==
    [k \in 1..n |->
        IF \A j \in 1..(k - 1) : v[j] = U8Max
        THEN (v[k] + 1) % (U8Max + 1)
        ELSE v[k]]

\* C26: under IntUnchecked{signed: false} an Inc by one leaves (v + 1) mod
\* 2^w in the slot, at every width w
C26_UncheckedWraps ==
    (/\ Ran("Arithmetic", {"Inc"})
     /\ instr.a[1] = IntUnchecked
     /\ instr.a[4] = 1
     /\ IncBefore.some) =>
        /\ IncAfter.some
        /\ LET n == RegBits(ArReg) \div 8
           IN  Uint(IncAfter.v, n) = PlusOne(Uint(IncBefore.v, n), n)

\* the slot a Neg addresses, before and after it ran
NegReg == RegA(instr.a[1])
NegBefore == get(was.regs, NegReg, instr.a[2])
NegAfter == get(regs, NegReg, instr.a[2])

\* v with the most significant bit of its last byte flipped
FlipTopBit(v) ==
    [v EXCEPT !.bytes[v.len] = IF @ >= 128 THEN @ - 128 ELSE @ + 128]

\* C27: Neg flips the most significant bit of an initialized register that
\* holds a value of its width, and nothing else; on an uninitialized
\* register it changes nothing
C27_NegFlipsSignBit ==
    Ran("Arithmetic", {"Neg"}) =>
        /\ ~NegBefore.some => regs = was.regs
        /\ (NegBefore.some /\ NegBefore.v.len = RegBits(NegReg) \div 8) =>
                NegAfter = Some(FlipTopBit(NegBefore.v))

\* every slot of a bank of the family fam holds a value that fits the width
\* of its register
BankFits(fam, bank) ==
    \A key \in DOMAIN bank :
        LET bits == RegBits([fam |-> fam, code |-> key[1]])
        IN  bits # NoBits => bank[key].len * 8 <= bits

C29_LenIsByteCount ==
    (/\ instr # NoInstr
     /\ step = ExecStep_Next
     /\ ~Ran("Arithmetic", {"Inc"})) =>
        /\ Instr_len(instr) = byte_count(instr)
        /\ site.pos - was.site.pos = byte_count(instr)

-----------------------------------------------------------------------------
(* Sub-byte fields written into one zeroed byte and read back.

   `code` holds the fields, each a width n and a value d below 2^n, whose
   widths add up to at most eight; `lead` is the byte the writer starts on,
   `prev` the writer as it was left, `out` the values read back. The reader
   is a cursor over the written buffer at the byte the writer started on. *)

MaxFields == 3

PackStarts == {0, U16Max}

\* the values tried for a field of n bits
FieldValues(n) == {0, Pow2(n - 1), Pow2(n) - 1}

RECURSIVE WidthSum(_, _)
WidthSum(fields, k) ==
    IF k = 0 THEN 0 ELSE WidthSum(fields, k - 1) + fields[k].n

\* a field of n bits and its value
Fields == UNION {{[n |-> n, d |-> d] : d \in FieldValues(n)} : n \in 1..7}

\* up to MaxFields fields that fit one byte
FieldLists ==
    {fields \in UNION {[1..k -> Fields] : k \in 1..MaxFields} :
        WidthSum(fields, Len(fields)) <= 8}

InitPack ==
    /\ code \in FieldLists
    /\ lead \in PackStarts
    /\ cur = [CursorWith(ZeroBytes, U16Max + 1) EXCEPT !.byte_pos = lead]
    /\ prev = cur
    /\ pc = "packing"
    /\ nops = 0
    /\ out = <<>>
    /\ last = [op |-> "none", n |-> 0]
    /\ res = OkRes
    /\ val = 0
    /\ instr = NoInstr
    /\ decoded = NoInstr
    /\ ext = NopExt
    /\ input = [len |-> 0, bytes |-> ZeroBytes]
    /\ blob = [len |-> 0, bytes |-> ZeroBytes]
    /\ NoExec

\* the writer writes the next field
PackField ==
    /\ pc = "packing"
    /\ nops < Len(code)
    /\ LET f == code[nops + 1]
           r == write_uN(cur, f.n, f.d)
       IN  /\ cur' = r.c
           /\ res' = r.res
           /\ pc' = IF IsOk(r) THEN "packing" ELSE "aborted"
           /\ last' = [op |-> "write_bits", n |-> f.n]
    /\ nops' = nops + 1
    /\ UNCHANGED <<prev, val, instr, decoded, ext, input, lead, code, out,
                   blob, libs, regs, site, step, was>>

\* a reader is put on the written buffer, at the byte the writer started on
Rewind ==
    /\ pc = "packing"
    /\ nops = Len(code)
    /\ prev' = cur
    /\ cur' = [CursorWith(cur.bytecode, cur.len) EXCEPT !.byte_pos = lead]
    /\ pc' = "unpacking"
    /\ nops' = 0
    /\ UNCHANGED <<last, res, val, instr, decoded, ext, input, lead, code,
                   out, blob, libs, regs, site, step, was>>

\* the reader reads the next field
UnpackField ==
    /\ pc = "unpacking"
    /\ nops < Len(code)
    /\ LET f == code[nops + 1]
           r == read_bits(cur, f.n)
       IN  /\ cur' = r.c
           /\ res' = r.res
           /\ val' = IF IsOk(r) THEN r.val ELSE 0
           /\ out' = IF IsOk(r) THEN Append(out, r.val) ELSE out
           /\ pc' = IF IsOk(r) THEN "unpacking" ELSE "aborted"
           /\ last' = [op |-> "read_bits", n |-> f.n]
    /\ nops' = nops + 1
    /\ UNCHANGED <<prev, instr, decoded, ext, input, lead, code, blob, libs,
                   regs, site, step, was>>

NextPack == PackField \/ Rewind \/ UnpackField

SpecPack == InitPack /\ [][NextPack]_vars

\* the sum of the first k fields, each shifted past the fields before it
RECURSIVE Packed(_, _)
Packed(fields, k) ==
    IF k = 0 THEN 0
    ELSE Packed(fields, k - 1) + fields[k].d * Pow2(WidthSum(fields, k - 1))

SamePosition(c1, c2) ==
    /\ c1.byte_pos = c2.byte_pos
    /\ c1.bit_pos = c2.bit_pos
    /\ c1.eof = c2.eof

\* C30: sub-byte fields are packed from the least significant bit on: the
\* byte holds the sum of the fields, each shifted by the widths before it;
\* reading the same widths returns the fields and ends where the writer did
C30_PackedLsbFirst ==
    /\ pc = "packing" =>
          /\ res.kind = "Ok"
          /\ Get(cur.bytecode, lead) = Packed(code, nops)
    /\ pc = "unpacking" =>
          /\ res.kind = "Ok"
          /\ Get(cur.bytecode, lead) = Packed(code, Len(code))
          /\ out = [j \in 1..nops |-> code[j].d]
          /\ nops = Len(code) => SamePosition(cur, prev)
    /\ pc # "aborted"

C30_Witness ==
    /\ pc = "unpacking"
    /\ nops = Len(code)
    /\ Len(code) = 3
    /\ \A j \in 1..3 : code[j].d # 0 /\ out[j] = code[j].d
    /\ WidthSum(code, 3) = 8
    /\ SamePosition(cur, prev)

-----------------------------------------------------------------------------
(* A value written for a register and read back for the same register.

   `instr` is a put of the register and the value, `lead` the byte the
   writer starts on in a zeroed buffer, `prev` the writer as it was left and
   `out` the value read back. *)

MaxValueLen == 3

ValueStarts == {0, WriteStart}

\* values of at most n bytes, up to MaxValueLen of them non-zero
ValuesUpTo(n) ==
    {Value([k \in 1..l |-> IF k <= MaxValueLen THEN b + k ELSE 0]) :
        l \in {0, 1, n - 1, n} \cap 0..n, b \in {0, 200}}

\* a register and a value no longer than its width; for the register
\* without a width, up to MaxValueLen bytes
RegValues ==
    UNION {{WithValue("Put", "PutA", <<tag, 0>>, v) :
                v \in ValuesUpTo(IF tag = AP THEN MaxValueLen
                                 ELSE RegBits(RegA(tag)) \div 8)} :
            tag \in {AP, 1, 2, 3}}
    \cup {WithValue("Put", "PutR", <<0, 0>>, v) :
            v \in ValuesUpTo(RegBits(RegR(0)) \div 8)}

InitValue ==
    /\ instr \in RegValues
    /\ lead \in ValueStarts
    /\ cur = [CursorWith(ZeroBytes, BlobCap) EXCEPT !.byte_pos = lead]
    /\ prev = cur
    /\ pc = "putting"
    /\ nops = 0
    /\ out = <<>>
    /\ code = <<>>
    /\ last = [op |-> "none", n |-> 0]
    /\ res = OkRes
    /\ val = 0
    /\ decoded = NoInstr
    /\ ext = NopExt
    /\ input = [len |-> 0, bytes |-> ZeroBytes]
    /\ blob = [len |-> 0, bytes |-> ZeroBytes]
    /\ NoExec

\* the writer writes the value
PutValue ==
    /\ pc = "putting"
    /\ LET r == write_value(cur, PutReg(instr), instr.value)
       IN  /\ cur' = r.c
           /\ res' = r.res
           /\ pc' = IF IsOk(r) THEN "put" ELSE "aborted"
    /\ last' = [op |-> "write_value", n |-> instr.value.len]
    /\ nops' = nops + 1
    /\ UNCHANGED <<prev, val, instr, decoded, ext, input, lead, code, out,
                   blob, libs, regs, site, step, was>>

\* a reader is put on the written buffer, at the byte the writer started on
RewindValue ==
    /\ pc = "put"
    /\ prev' = cur
    /\ cur' = [CursorWith(cur.bytecode, cur.len) EXCEPT !.byte_pos = lead]
    /\ pc' = "getting"
    /\ UNCHANGED <<last, res, val, nops, instr, decoded, ext, input, lead,
                   code, out, blob, libs, regs, site, step, was>>

\* the reader reads a value for the same register
GetValue ==
    /\ pc = "getting"
    /\ LET r == read_value(cur, PutReg(instr))
       IN  /\ cur' = r.c
           /\ res' = r.res
           /\ out' = IF IsOk(r) THEN <<r.val>> ELSE out
           /\ pc' = IF IsOk(r) THEN "got" ELSE "aborted"
    /\ last' = [op |-> "read_value", n |-> RegBits(PutReg(instr)) \div 8]
    /\ nops' = nops + 1
    /\ UNCHANGED <<prev, val, instr, decoded, ext, input, lead, code, blob,
                   libs, regs, site, step, was>>

NextValue == PutValue \/ RewindValue \/ GetValue

SpecValue == InitValue /\ [][NextValue]_vars

\* C31: a value no longer than its register, written with write_value and
\* read with read_value from the same position, comes back with the same
\* active length and bytes, and both cursors advance by the same amount
C31_ValueRoundTrip ==
    /\ pc # "aborted"
    /\ pc = "got" =>
          /\ out = <<instr.value>>
          /\ cur.byte_pos = prev.byte_pos

\* the six categories whose fields are packed below the byte
Packing == {"ControlFlow", "Put", "Move", "Cmp", "Arithmetic", "Bitwise"}

\* C32: an instruction of the six packing categories is written and read
\* without a cursor assertion firing; the write ends on a byte boundary, and
\* the read takes the same fields in the same order and ends on the byte
\* the write ended on
C32_ByteAligned ==
    /\ (pc \in {"write", "failed"} /\ nops = 1 /\ instr.cat \in Packing) =>
          /\ res.kind = "Ok"
          /\ cur.bit_pos = 0
    /\ (pc = "read" /\ instr.cat \in Packing) =>
          /\ res.kind = "Ok"
          /\ cur.bit_pos = 0
          /\ decoded.cat = instr.cat /\ decoded.op = instr.op
          /\ decoded.a = instr.a
          /\ cur.byte_pos
                = write(CursorWith(ZeroBytes, BlobCap), instr).c.byte_pos

C32_Witness ==
    /\ pc = "read"
    /\ instr.cat = "Arithmetic" /\ instr.op = "Stp"
    /\ res.kind = "Ok"
    /\ decoded = instr
    /\ cur.bit_pos = 0 /\ cur.byte_pos = 3

\* C33: bit_pos stays within 0..7; a cursor at eof stands on byte 65535 with
\* bit_pos 0; eof appears only with the cursor on byte 65535, after a step
\* that returned Ok, and an operation on a cursor at eof leaves it at eof
C33_CursorState ==
    /\ cur.bit_pos \in 0..7
    /\ cur.eof => cur.byte_pos = U16Max /\ cur.bit_pos = 0
    /\ (cur.eof /\ ~prev.eof) => res.kind = "Ok" /\ cur.byte_pos = U16Max
    /\ prev.eof => cur.eof

C33_Witness ==
    /\ nops = 2
    /\ prev.eof /\ cur.eof
    /\ last.op \in {"write_bits", "write_u8", "read_u8"}
    /\ res.kind = "Eof"
    /\ cur.byte_pos = U16Max

\* C34: a read cursor at eof is at its end, so a loop that reads while
\* is_end is false never reads at eof
C34_EofIsEnd ==
    (pc = "reader" /\ cur.eof) => is_end(cur)

\* the last operation was a write primitive
WriteOps == {"write_bits", "write_u8", "write_u16", "write_bytes32",
             "write_slice", "write_value"}

\* C35: a write primitive that returns an error leaves the buffer and the
\* position as they were; a successful write changes no byte outside the
\* bytes between the old and the new position
C35_FailedWriteKeeps ==
    (pc = "writer" /\ last.op \in WriteOps) =>
        /\ res.kind \in {"Eof", "OutOfBoundaries"} => cur = prev
        /\ res.kind = "Ok" =>
              \A j \in DOMAIN cur.bytecode \cup DOMAIN prev.bytecode :
                  Get(cur.bytecode, j) # Get(prev.bytecode, j) =>
                      /\ j >= prev.byte_pos
                      /\ j <= cur.byte_pos
                      /\ (j < cur.byte_pos \/ cur.bit_pos > 0 \/ cur.eof)

-----------------------------------------------------------------------------
(* Instructions written one after another at the end of a buffer of 65,536
   bytes, the longest a cursor can address. *)

MaxWrites == 2

EndStarts == {U16Max - 4, U16Max - 3, U16Max - 2, U16Max - 1, U16Max}

EndInstrs ==
    {I("ControlFlow", "Fail", <<>>), I("ControlFlow", "Succ", <<>>),
     I("ControlFlow", "Jmp", <<258>>), I("Put", "ZeroA", <<1, 0>>),
     WithValue("Put", "PutA", <<AP, 0>>, Value(<<9>>)),
     WithValue("Put", "PutA", <<1, 0>>, Value(<<5>>)),
     I("Move", "MovA", <<1, 0, 2, 31>>)}

InitEnd ==
    /\ \E p \in EndStarts :
          cur = [CursorWith(ZeroBytes, U16Max + 1) EXCEPT !.byte_pos = p]
    /\ prev = cur
    /\ pc = "encode"
    /\ nops = 0
    /\ code = <<>>
    /\ out = <<>>
    /\ lead = 0
    /\ last = [op |-> "none", n |-> 0]
    /\ res = OkRes
    /\ val = 0
    /\ instr = NoInstr
    /\ decoded = NoInstr
    /\ ext = NopExt
    /\ input = [len |-> 0, bytes |-> ZeroBytes]
    /\ blob = [len |-> 0, bytes |-> ZeroBytes]
    /\ NoExec

\* instr.write(&mut writer), whatever the write before it returned
WriteNext(i) ==
    /\ pc = "encode"
    /\ nops < MaxWrites
    /\ LET Return(r) ==
               /\ cur' = r.c
               /\ res' = r.res
               /\ pc' = IF r.res.kind = "Panic" THEN "aborted" ELSE "encode"
       IN  Return(write(cur, i))
    /\ prev' = cur
    /\ last' = [op |-> "write", n |-> byte_count(i)]
    /\ instr' = i
    /\ code' = Append(code, i)
    /\ nops' = nops + 1
    /\ UNCHANGED <<val, decoded, ext, input, lead, out, blob, libs, regs,
                   site, step, was>>

NextEnd == \E i \in EndInstrs : WriteNext(i)

SpecEnd == InitEnd /\ [][NextEnd]_vars

\* C36: when the write of the opcode byte fails, Bytecode::write returns an
\* error
C36_WriteReturnsError ==
    (last.op = "write" /\ pc = "encode"
        /\ ~IsOk(write_u8(prev, instr_byte(instr)))) => res.kind # "Ok"

-----------------------------------------------------------------------------
(* Runs followed to their end, from register files whose cycle counter is
   close to its limit so that every loop exhausts it within a few turns. *)

LiveInstrs ==
    {i \in ExecInstrs : i.cat \in {"ControlFlow", "Nop"}}
    \cup {WithValue("Put", "PutA", <<1, 0>>, Value(<<5>>)),
          I("Move", "MovA", <<1, 0, 1, 1>>),
          I("Move", "AMov", <<1, 3, 0>>)}

LivePrograms ==
    {[h \in {LibA, LibB} |-> IF h = LibA THEN body ELSE LibBCode] :
        body \in UNION {[1..n -> LiveInstrs] : n \in 1..MaxLibLen}}

LiveRegs ==
    {r \in EntryRegs : r.cy0 >= U16Max - 1 /\ r.cp0 \in {0, CallStackDepth}}

InitLive ==
    /\ libs \in LivePrograms
    /\ regs \in LiveRegs
    /\ site = LibSite(0, LibA)
    /\ step = ExecStep_Next
    /\ was = [regs |-> regs, site |-> site]
    /\ pc = "running"
    /\ nops = 0
    /\ instr = NoInstr
    /\ cur = CursorWith(ZeroBytes, 0)
    /\ prev = cur
    /\ last = [op |-> "none", n |-> 0]
    /\ res = OkRes
    /\ val = 0
    /\ decoded = NoInstr
    /\ ext = NopExt
    /\ input = [len |-> 0, bytes |-> ZeroBytes]
    /\ lead = 0
    /\ code = <<>>
    /\ out = <<>>
    /\ blob = [len |-> 0, bytes |-> ZeroBytes]

\* a turn of the loop, however many came before
LiveInstr == RunInstr /\ UNCHANGED nops

LiveEnd == RunEnd /\ UNCHANGED nops

NextLive == LiveInstr \/ LiveEnd

\* the loop keeps turning while the run has not ended
SpecLive == InitLive /\ [][NextLive]_vars /\ WF_vars(NextLive)

\* C37: every run of a program over the control-flow, Put, Move and Nop
\* instructions reaches Stop
C37_ReachesStop == <>(pc = "stopped")

\* the registers that no data instruction writes
Flow(r) == <<r.st0, r.cy0, r.cp0, r.cs0>>

\* r without the two slots a Mov or a Swp names
WithoutBoth(r) ==
    Without(Without(r, MoveRegs(instr)[1], instr.a[2]),
            MoveRegs(instr)[2], instr.a[4])

\* C38: Put, Move and Nop return Next and keep st0, cy0, cp0 and cs0; a Put
\* changes at most the slot it names, a Mov or a Swp at most its two slots
C38_DataFrame ==
    /\ (instr.cat \in {"Put", "Move", "Nop"}) =>
           step = ExecStep_Next /\ Flow(regs) = Flow(was.regs)
    /\ (instr.cat = "Put") =>
           Without(regs, PutReg(instr), instr.a[2])
               = Without(was.regs, PutReg(instr), instr.a[2])
    /\ (instr.cat = "Move" /\ instr.op # "AMov") =>
           WithoutBoth(regs) = WithoutBoth(was.regs)
    /\ (instr.cat = "Nop") => regs = was.regs

\* the slot a Neg or an increment reads
UnaryBefore ==
    IF instr.op = "Neg" THEN get(was.regs, RegA(instr.a[1]), instr.a[2])
    ELSE get(was.regs, RegA(instr.a[2]), instr.a[3])

\* an arithmetic instruction ran on an operand slot that held nothing
ReadUninitialized ==
    \/ Ran("Arithmetic", {"Neg", "Inc"}) /\ ~UnaryBefore.some
    \/ Ran("Arithmetic", {"Add", "Mul"}) /\ ~(Src1.some /\ Src2.some)

\* C39: Neg, increment, Add and Mul on an uninitialized operand slot change
\* no register and return Next
C39_UninitializedNoUpdate ==
    ReadUninitialized => regs = was.regs /\ step = ExecStep_Next

C39_Witness ==
    /\ Ran("Arithmetic", {"Add"})
    /\ ~Src1.some
    /\ Src2.some
    /\ regs = was.regs
    /\ step = ExecStep_Next

\* the two slots of a Mov or a Swp, before and after it ran
Slot1Before == get(was.regs, MoveRegs(instr)[1], instr.a[2])
Slot2Before == get(was.regs, MoveRegs(instr)[2], instr.a[4])
Slot1After == get(regs, MoveRegs(instr)[1], instr.a[2])
Slot2After == get(regs, MoveRegs(instr)[2], instr.a[4])

Swaps == {"SwpA", "SwpR", "SwpAR"}
Moves == {"MovA", "MovR", "MovAR", "MovRA"}

EqualWidth == RegBits(MoveRegs(instr)[1]) = RegBits(MoveRegs(instr)[2])

\* the same instruction run once more gives back the registers it started on
TwiceRestores == MoveOp_exec(instr, regs, site).regs = was.regs

\* what a register of the width of reg keeps of an optional value
Kept(reg, opt) == IF opt.some THEN Some(Fit(reg, opt.v)) ELSE None

\* C40 as stated: a swap exchanges the contents of its two slots, twice
\* restores them on equal widths; a move makes the destination equal to the
\* source and leaves the source unchanged
C40_ExchangeAndCopy ==
    /\ Ran("Move", Swaps) =>
           /\ Slot1After = Slot2Before
           /\ Slot2After = Slot1Before
           /\ EqualWidth => TwiceRestores
    /\ Ran("Move", Moves) =>
           /\ Slot2After = Slot1Before
           /\ Slot1After = Slot1Before

\* C40: a swap gives each of its two slots what the slot's register keeps of
\* the other's content, and twice restores them on equal widths; a move
\* gives the destination what its register keeps of the source and leaves
\* the source unchanged
C40_ExchangeAndCopyFitted ==
    /\ Ran("Move", Swaps) =>
           /\ Slot1After = Kept(MoveRegs(instr)[1], Slot2Before)
           /\ Slot2After = Kept(MoveRegs(instr)[2], Slot1Before)
           /\ EqualWidth => TwiceRestores
    /\ Ran("Move", Moves) =>
           /\ Slot2After = Kept(MoveRegs(instr)[2], Slot1Before)
           /\ Slot1After = Slot1Before

C40_Witness ==
    /\ Ran("Move", {"SwpA"})
    /\ EqualWidth
    /\ ~Slot1Before.some
    /\ Slot2Before.some
    /\ Slot1After = Slot2Before
    /\ Slot2After = None

=============================================================================
